---------------------------- MODULE Spec2Model ----------------------------
(***************************************************************************)
(* chatgpt-search: the index build/restore/persist protocol of the App     *)
(* component, its cache, and the query (SearchResults) it renders.         *)
(*                                                                         *)
(* JavaScript strings that the code inspects character by character (ids,  *)
(* titles, texts, queries) are sequences of UTF-16 code units.  Cache keys *)
(* and the hexadecimal signature are TLA+ strings.                         *)
(***************************************************************************)
EXTENDS Integers, Sequences, FiniteSets, TLC

(***************************************************************************)
(* Bounds of the model.                                                    *)
(***************************************************************************)
MaxUploads == 1
MaxRestarts == 1

(***************************************************************************)
(* JavaScript's undefined, in a string-valued and in a number-valued       *)
(* position (no code unit and no timestamp of the model is negative), and  *)
(* the null of the miniSearch state.                                       *)
(***************************************************************************)
Undefined == <<-1>>
UndefinedNum == -1
Null == [null |-> TRUE]

IsString(v) == v # Undefined

\* String(v) of a string or undefined.
ToStr(v) == IF v = Undefined THEN <<117, 110, 100, 101, 102, 105, 110, 101, 100>> ELSE v

(***************************************************************************)
(* Strings as code-unit sequences.                                         *)
(***************************************************************************)
Colon == 58
Bar == 124
Space == 32

RECURSIVE Digits(_)
Digits(n) == IF n < 10 THEN <<48 + n>> ELSE Digits(n \div 10) \o <<48 + (n % 10)>>

\* a < b in the order of Array.prototype.sort() without comparator
\* (code-unit lexicographic order of the strings).
RECURSIVE StrLess(_, _)
StrLess(a, b) ==
    IF b = <<>> THEN FALSE
    ELSE IF a = <<>> THEN TRUE
    ELSE IF Head(a) # Head(b) THEN Head(a) < Head(b)
    ELSE StrLess(Tail(a), Tail(b))

RECURSIVE InsertSorted(_, _)
InsertSorted(x, s) ==
    IF s = <<>> THEN <<x>>
    ELSE IF StrLess(x, Head(s)) THEN <<x>> \o s
    ELSE <<Head(s)>> \o InsertSorted(x, Tail(s))

\* The parts left in the order of the records.
KeepOrder(s) == s

RECURSIVE SortStrings(_)
SortStrings(s) == IF s = <<>> THEN <<>> ELSE InsertSorted(Head(s), SortStrings(Tail(s)))

RECURSIVE JoinWith(_, _)
JoinWith(parts, sep) ==
    IF parts = <<>> THEN <<>>
    ELSE IF Len(parts) = 1 THEN parts[1]
    ELSE parts[1] \o <<sep>> \o JoinWith(Tail(parts), sep)

(***************************************************************************)
(* fnv1a: 32-bit FNV-1a.  The 32-bit hash is kept as two 16-bit halves     *)
(* <<hi, lo>> so that every intermediate product stays below 2^31.         *)
(***************************************************************************)
RECURSIVE Xor16(_, _, _)
Xor16(a, b, bits) ==
    IF bits = 0 THEN 0
    ELSE (((a % 2) + (b % 2)) % 2) + 2 * Xor16(a \div 2, b \div 2, bits - 1)

\* Math.imul(hash, 0x01000193) on the halves: 0x01000193 = 2^24 + 403.
FnvImul(h) ==
    LET p == h[2] * 403
    IN  << (h[1] * 403 + h[2] * 256 + (p \div 65536)) % 65536, p % 65536 >>

RECURSIVE FnvLoop(_, _)
FnvLoop(h, str) ==
    IF str = <<>> THEN h
    ELSE FnvLoop(FnvImul(<<h[1], Xor16(h[2], Head(str), 16)>>), Tail(str))

HexChars == <<"0", "1", "2", "3", "4", "5", "6", "7", "8", "9", "a", "b", "c", "d", "e", "f">>

\* Number.prototype.toString(16) of a non-negative integer below 2^16:
\* no leading zeros.
RECURSIVE Hex(_)
Hex(n) == IF n < 16 THEN HexChars[n + 1] ELSE Hex(n \div 16) \o HexChars[(n % 16) + 1]

\* The low half when a non-zero high half precedes it: exactly four digits.
Hex4(n) ==
    HexChars[(n \div 4096) + 1] \o HexChars[((n \div 256) % 16) + 1]
        \o HexChars[((n \div 16) % 16) + 1] \o HexChars[(n % 16) + 1]

\* The hash rendered in eight digits, zeros leading.
HexPadded(h) == Hex4(h[1]) \o Hex4(h[2])

\* (hash >>> 0).toString(16)
HexOfHash(h) == IF h[1] = 0 THEN Hex(h[2]) ELSE Hex(h[1]) \o Hex4(h[2])

fnv1a(str) == HexOfHash(FnvLoop(<<33052, 40389>>, str))

\* `${c.id}:${c.updated}`
SignaturePart(c) == ToStr(c.id) \o <<Colon>> \o Digits(c.updated)

getConversationsSignature(conversations) ==
    IF Len(conversations) = 0 THEN "empty"
    ELSE fnv1a(JoinWith(SortStrings([i \in 1..Len(conversations) |->
                                        SignaturePart(conversations[i])]), Bar))

(***************************************************************************)
(* String helpers of the query path.                                       *)
(***************************************************************************)
\* String.prototype.toLowerCase on ASCII code units.
LowerChar(c) == IF c >= 65 /\ c <= 90 THEN c + 32 ELSE c
toLowerCase(s) == [i \in 1..Len(s) |-> LowerChar(s[i])]

IsWhite(c) == c \in {9, 10, 11, 12, 13, 32}

RECURSIVE TrimLeft(_)
TrimLeft(s) == IF s # <<>> /\ IsWhite(Head(s)) THEN TrimLeft(Tail(s)) ELSE s

RECURSIVE TrimRight(_)
TrimRight(s) ==
    IF s # <<>> /\ IsWhite(s[Len(s)]) THEN TrimRight(SubSeq(s, 1, Len(s) - 1)) ELSE s

\* A trim that removes nothing.
TrimNothing(s) == s

\* String.prototype.trim
trim(s) == TrimRight(TrimLeft(s))

\* haystack.indexOf(needle, from), positions counted from 1; 0 when absent.
indexOf(haystack, needle, from) ==
    LET hits == {i \in from..(Len(haystack) - Len(needle) + 1) :
                    SubSeq(haystack, i, i + Len(needle) - 1) = needle}
    IN  IF hits = {} THEN 0 ELSE CHOOSE i \in hits : \A j \in hits : i <= j

\* String.prototype.includes
includes(haystack, needle) == indexOf(haystack, needle, 1) # 0

RECURSIVE CountFrom(_, _, _)
CountFrom(haystack, needle, from) ==
    LET i == indexOf(haystack, needle, from)
    IN  IF i = 0 THEN 0 ELSE 1 + CountFrom(haystack, needle, i + Len(needle))

countOccurrences(haystack, needle) ==
    IF haystack = <<>> \/ needle = <<>> THEN 0 ELSE CountFrom(haystack, needle, 1)

(***************************************************************************)
(* MiniSearch (the external full-text index), as far as the program uses   *)
(* it: an index holds, per document, the lower-cased terms of the indexed  *)
(* fields and the stored fields; search with default options matches whole *)
(* terms.  The score stands for the library's BM25 score: the number of    *)
(* occurrences of the query's terms in the document.                       *)
(***************************************************************************)
\* Separators of MiniSearch's default tokenizer: white space and ASCII
\* punctuation.
IsSeparator(c) ==
    c \in {9, 10, 13, 32, 33, 34, 35, 37, 38, 39, 40, 41, 42, 44, 45, 46, 47,
           58, 59, 63, 64, 91, 92, 93, 95, 123, 125}

RECURSIVE TokenizeFrom(_, _)
TokenizeFrom(s, cur) ==
    IF s = <<>> THEN (IF cur = <<>> THEN <<>> ELSE <<cur>>)
    ELSE IF IsSeparator(Head(s))
         THEN (IF cur = <<>> THEN <<>> ELSE <<cur>>) \o TokenizeFrom(Tail(s), <<>>)
         ELSE TokenizeFrom(Tail(s), cur \o <<LowerChar(Head(s))>>)

\* tokenize + processTerm (lower-case, empty terms dropped); a field that is
\* not a string contributes no term.
Tokenize(v) == IF IsString(v) THEN TokenizeFrom(v, <<>>) ELSE <<>>

RECURSIVE FlattenSeqs(_)
FlattenSeqs(ss) == IF ss = <<>> THEN <<>> ELSE Head(ss) \o FlattenSeqs(Tail(ss))

\* The options the index effect passes to MiniSearch.
miniSearchOptions ==
    [fields |-> <<"title", "text">>, storeFields |-> <<"id", "title", "updated", "time">>]

Range(f) == {f[i] : i \in DOMAIN f}

\* One document of an index built with `options`.
IndexDocument(options, c) ==
    [id |-> c.id,
     terms |-> FlattenSeqs([i \in 1..Len(options.fields) |-> Tokenize(c[options.fields[i]])]),
     stored |-> [f \in Range(options.storeFields) |-> c[f]]]

\* addAllAsync rejects when a document has no id or repeats an id.
BuildThrows(conversations) ==
    \/ \E i \in 1..Len(conversations) : ~IsString(conversations[i].id)
    \/ \E i, j \in 1..Len(conversations) : i < j /\ conversations[i].id = conversations[j].id

\* new MiniSearch(options) followed by addAllAsync(conversations).
BuildIndex(options, conversations) ==
    [options |-> options,
     docs |-> [i \in 1..Len(conversations) |-> IndexDocument(options, conversations[i])]]

\* JSON.stringify(miniSearch.toJSON()): the documents, not the options.
SerializeIndex(ms) == [serializationVersion |-> 2, docs |-> ms.docs]

IsIndexText(text) ==
    /\ DOMAIN text = {"serializationVersion", "docs"}
    /\ text.serializationVersion = 2

\* MiniSearch.loadJSON(text, options): the options are the caller's.
LoadJSON(text, options) == [options |-> options, docs |-> text.docs]

StoredString(doc, f) == IF f \in DOMAIN doc.stored THEN doc.stored[f] ELSE Undefined
StoredNumber(doc, f) == IF f \in DOMAIN doc.stored THEN doc.stored[f] ELSE UndefinedNum

TermScore(doc, term) == Cardinality({i \in 1..Len(doc.terms) : doc.terms[i] = term})

RECURSIVE SumScores(_, _)
SumScores(doc, terms) ==
    IF terms = <<>> THEN 0 ELSE TermScore(doc, Head(terms)) + SumScores(doc, Tail(terms))

DocScore(doc, query) ==
    LET terms == Tokenize(query)
        distinct == {terms[i] : i \in 1..Len(terms)}
        first == {i \in 1..Len(terms) : \A j \in 1..(i - 1) : terms[j] # terms[i]}
    IN  SumScores(doc, [k \in 1..Cardinality(first) |->
            terms[CHOOSE i \in first : Cardinality({j \in first : j < i}) = k - 1]])

SearchHit(doc, query) ==
    [id |-> doc.id, score |-> DocScore(doc, query),
     title |-> StoredString(doc, "title"), updated |-> StoredNumber(doc, "updated"),
     time |-> StoredNumber(doc, "time"), text |-> StoredString(doc, "text")]

RECURSIVE SelectSeq2(_, _)
SelectSeq2(s, keep) ==
    IF s = <<>> THEN <<>>
    ELSE (IF Head(s) \in keep THEN <<Head(s)>> ELSE <<>>) \o SelectSeq2(Tail(s), keep)

RECURSIVE InsertByScore(_, _)
InsertByScore(x, s) ==
    IF s = <<>> THEN <<x>>
    ELSE IF x.score > Head(s).score THEN <<x>> \o s
    ELSE <<Head(s)>> \o InsertByScore(x, Tail(s))

RECURSIVE SortByScore(_)
SortByScore(s) ==
    IF s = <<>> THEN <<>>
    ELSE InsertByScore(s[Len(s)], SortByScore(SubSeq(s, 1, Len(s) - 1)))

\* miniSearch.search(query, {}): the matching documents, best score first,
\* equal scores in the order the documents were added.
MiniSearchSearch(ms, query) ==
    LET hits == [i \in 1..Len(ms.docs) |-> SearchHit(ms.docs[i], query)]
        matching == {hits[i] : i \in {j \in 1..Len(hits) : hits[j].score > 0}}
    IN  SortByScore(SelectSeq2(hits, matching))

(***************************************************************************)
(* SearchResults: the result sequence `showing` that the component         *)
(* renders.  An exact-mode item is a conversation; a fuzzy-mode item is a  *)
(* search hit (the stored fields and a score).                             *)
(***************************************************************************)
\* A TypeError raised while evaluating the query.
QueryError == <<[error |-> "TypeError"]>>

\* Number(c?.updated ?? 0), Number(c?.time ?? 0), Number(a?.score ?? 0)
getUpdated(c) == IF c.updated = UndefinedNum THEN 0 ELSE c.updated
getCreated(c) == IF c.time = UndefinedNum THEN 0 ELSE c.time
ScoreOf(c) == IF "score" \in DOMAIN c THEN c.score ELSE 0

\* String(v ?? '').toLowerCase()
LowerOrEmpty(v) == IF IsString(v) THEN toLowerCase(v) ELSE <<>>

getExactMatchScore(conversation, q) ==
    IF q = <<>> THEN 0
    ELSE countOccurrences(LowerOrEmpty(conversation.title), q) * 5
            + countOccurrences(LowerOrEmpty(conversation.text), q)

\* Variants of the comparator: relevance without the tie-break on the
\* update time; date order with the tie-break on the score reversed.
CompareScoreOnly(a, b, kind, q) ==
    CASE kind = "relevanceFuzzy" -> ScoreOf(b) - ScoreOf(a)
      [] kind = "relevanceExact" -> getExactMatchScore(b, q) - getExactMatchScore(a, q)
      [] kind = "created" ->
            IF getCreated(b) - getCreated(a) # 0 THEN getCreated(b) - getCreated(a)
            ELSE ScoreOf(b) - ScoreOf(a)
      [] OTHER ->
            IF getUpdated(b) - getUpdated(a) # 0 THEN getUpdated(b) - getUpdated(a)
            ELSE ScoreOf(b) - ScoreOf(a)

CompareTieReversed(a, b, kind, q) ==
    CASE kind = "created" ->
            IF getCreated(b) - getCreated(a) # 0 THEN getCreated(b) - getCreated(a)
            ELSE ScoreOf(a) - ScoreOf(b)
      [] kind = "updated" ->
            IF getUpdated(b) - getUpdated(a) # 0 THEN getUpdated(b) - getUpdated(a)
            ELSE ScoreOf(a) - ScoreOf(b)
      [] OTHER -> CompareScoreOnly(a, b, kind, q)

\* The comparator of showing.sort for each branch; negative: a comes first.
Compare(a, b, kind, q) ==
    CASE kind = "relevanceFuzzy" ->
            IF ScoreOf(b) # ScoreOf(a) THEN ScoreOf(b) - ScoreOf(a)
            ELSE getUpdated(b) - getUpdated(a)
      [] kind = "relevanceExact" ->
            IF getExactMatchScore(b, q) # getExactMatchScore(a, q)
            THEN getExactMatchScore(b, q) - getExactMatchScore(a, q)
            ELSE getUpdated(b) - getUpdated(a)
      [] kind = "created" ->
            IF getCreated(b) - getCreated(a) # 0 THEN getCreated(b) - getCreated(a)
            ELSE ScoreOf(b) - ScoreOf(a)
      [] OTHER ->
            IF getUpdated(b) - getUpdated(a) # 0 THEN getUpdated(b) - getUpdated(a)
            ELSE ScoreOf(b) - ScoreOf(a)

\* Array.prototype.sort with a comparator is stable.
RECURSIVE InsertCompare(_, _, _, _)
InsertCompare(x, s, kind, q) ==
    IF s = <<>> THEN <<x>>
    ELSE IF Compare(x, Head(s), kind, q) < 0 THEN <<x>> \o s
    ELSE <<Head(s)>> \o InsertCompare(x, Tail(s), kind, q)

RECURSIVE SortCompare(_, _, _)
SortCompare(s, kind, q) ==
    IF s = <<>> THEN <<>>
    ELSE InsertCompare(s[Len(s)], SortCompare(SubSeq(s, 1, Len(s) - 1), kind, q), kind, q)

SortKind(fuzzy, sortBy) ==
    IF sortBy = "relevance" THEN (IF fuzzy THEN "relevanceFuzzy" ELSE "relevanceExact")
    ELSE IF sortBy = "created" THEN "created"
    ELSE "updated"

\* c.text.toLowerCase().includes(lowerInput) || c.title.toLowerCase().includes(lowerInput)
ExactThrows(c, lowerInput) ==
    \/ ~IsString(c.text)
    \/ ~includes(toLowerCase(c.text), lowerInput) /\ ~IsString(c.title)

ExactMatches(c, lowerInput) ==
    \/ includes(toLowerCase(c.text), lowerInput)
    \/ includes(toLowerCase(c.title), lowerInput)

ExactFilter(conversations, lowerInput) ==
    IF \E i \in 1..Len(conversations) : ExactThrows(conversations[i], lowerInput)
    THEN QueryError
    ELSE SelectSeq2(conversations,
            {conversations[i] : i \in {j \in 1..Len(conversations) :
                                        ExactMatches(conversations[j], lowerInput)}})

SearchResults(input, conversations, fuzzy, ms, sortBy) ==
    IF trim(input) = <<>> THEN <<>>
    ELSE LET found == IF fuzzy
                      THEN (IF ms # Null THEN MiniSearchSearch(ms, trim(input)) ELSE <<>>)
                      ELSE ExactFilter(conversations, toLowerCase(input))
         IN  IF found = QueryError THEN QueryError
             ELSE SortCompare(found, SortKind(fuzzy, sortBy), toLowerCase(trim(input)))

(***************************************************************************)
(* Storage constants.                                                      *)
(***************************************************************************)
STORAGE_SCHEMA_VERSION == 2
CACHE_NAME == "chatgpt-search-cache-v2"
MINISEARCH_META_KEY == "minisearch:index:meta:v2"

\* A key that leaves the signature out.
IndexKeyWithoutSignature(signature) == "minisearch:index:v2"

getMiniSearchIndexKey(signature) == "minisearch:index:" \o signature \o ":v2"

\* 'json' and 'file' hold no colon and are used as they are; every other key
\* of the program holds a colon and is no http(s) URL, and is rewritten to
\* the path /_cache/<encodeURIComponent(key)> (the encoding is injective and
\* is left unexpanded).
normalizeCacheKey(key) == IF key \in {"json", "file"} THEN key ELSE "/_cache/" \o key

(***************************************************************************)
(* Cache Storage: cache name -> (request key -> response body).            *)
(***************************************************************************)
EmptyCache == [k \in {} |-> Null]

\* caches.open(name) creates the cache when it does not exist.
CachesOpen(cs, name) == IF name \in DOMAIN cs THEN cs ELSE (name :> EmptyCache) @@ cs

\* cache.match(normalizeCacheKey(key)) found a response.
CacheHas(cs, name, key) ==
    name \in DOMAIN cs /\ normalizeCacheKey(key) \in DOMAIN cs[name]

CacheBody(cs, name, key) == cs[name][normalizeCacheKey(key)]

\* cache.put(normalizeCacheKey(key), new Response(body))
CachePut(cs, name, key, body) ==
    [CachesOpen(cs, name) EXCEPT ![name] = (normalizeCacheKey(key) :> body) @@ @]

(***************************************************************************)
(* JSON.stringify / response.json() of the conversations array: a property *)
(* whose value is undefined is omitted, and reads back as undefined.       *)
(***************************************************************************)
StringFields == {"id", "title", "text"}
NumberFields == {"time", "updated"}

JsonStringify(conversations) ==
    [i \in 1..Len(conversations) |->
        LET c == conversations[i]
            kept == {f \in StringFields : c[f] # Undefined}
                        \cup {f \in NumberFields : c[f] # UndefinedNum}
        IN  [f \in kept |-> c[f]]]

JsonParse(json) ==
    [i \in 1..Len(json) |->
        [f \in StringFields \cup NumberFields |->
            IF f \in DOMAIN json[i] THEN json[i][f]
            ELSE IF f \in StringFields THEN Undefined ELSE UndefinedNum]]

(***************************************************************************)
(* Response bodies that are no serialized index.                           *)
(***************************************************************************)
EmptyText == [empty |-> TRUE]
CorruptText == [corrupt |-> TRUE]

(***************************************************************************)
(* The record sets and files of the model.                                 *)
(***************************************************************************)
\* id "a", title "T", text "[u] x"
ConvA == [id |-> <<97>>, title |-> <<84>>, time |-> 2, updated |-> 3,
          text |-> <<91, 117, 93, 32, 120>>]
\* the same id and update time as ConvA, another text: "[u] t"
ConvA2 == [id |-> <<97>>, title |-> <<84>>, time |-> 2, updated |-> 3,
           text |-> <<91, 117, 93, 32, 116>>]
\* id "b", title "x", text "[u] t"
ConvB == [id |-> <<98>>, title |-> <<120>>, time |-> 1, updated |-> 3,
          text |-> <<91, 117, 93, 32, 116>>]

\* What processFile makes of the archives the user may pick: an empty
\* export, one conversation, two conversations, a repeated conversation id.
UploadSets == {<<>>, <<ConvA>>, <<ConvA2>>, <<ConvB, ConvA>>, <<ConvA, ConvA>>}

\* An archive processFile parses, or one it rejects (no conversations.json,
\* unparseable JSON, top level no array).
Files == [kind : {"zip"}, conversations : UploadSets]
            \cup {[kind |-> "invalid", conversations |-> <<>>]}

\* The queries and settings the invariants range over.
Queries == {<<>>, <<Space>>, <<120>>, <<84>>, <<116, 32, 120>>}
SortModes == {"relevance", "updated", "created"}

\* Options of an earlier build of the program (src/index.jsx: no `time`).
legacyMiniSearchOptions ==
    [fields |-> <<"title", "text">>, storeFields |-> <<"id", "title", "updated">>]

MetaRecord(signature, options) ==
    [signature |-> signature, indexKey |-> getMiniSearchIndexKey(signature),
     createdAt |-> "Date.now", miniSearchOptions |-> options]

\* The archive, the record set and the artifact for `conversations` as a
\* build with `options` caches them, with `blob` as the body under the index
\* key.
PriorArtifact(conversations, options, blob) ==
    CachePut(CachePut(CachePut(CachePut(
        [n \in {} |-> EmptyCache],
        CACHE_NAME, "file", [kind |-> "zip", conversations |-> conversations]),
        CACHE_NAME, "json", JsonStringify(conversations)),
        CACHE_NAME, getMiniSearchIndexKey(getConversationsSignature(conversations)), blob),
        CACHE_NAME, MINISEARCH_META_KEY,
        MetaRecord(getConversationsSignature(conversations), options))

\* What Cache Storage holds when the page is opened: nothing, or the record
\* set and the artifact an earlier page load uploaded, built and persisted.
PriorCaches ==
    { [n \in {} |-> EmptyCache],
      PriorArtifact(<<ConvA>>, miniSearchOptions,
                    SerializeIndex(BuildIndex(miniSearchOptions, <<ConvA>>))) }

\* The artifact without the body under its index key.
PriorArtifactNoBlob(conversations, options) ==
    CachePut(CachePut(CachePut(
        [n \in {} |-> EmptyCache],
        CACHE_NAME, "file", [kind |-> "zip", conversations |-> conversations]),
        CACHE_NAME, "json", JsonStringify(conversations)),
        CACHE_NAME, MINISEARCH_META_KEY,
        MetaRecord(getConversationsSignature(conversations), options))

\* Cache Storage whose index body was lost or damaged outside the program:
\* absent or empty (`if (!jsonText) return null`), or not the text of an
\* index (MiniSearch.loadJSON throws into the catch block).
DamagedCaches ==
    { PriorArtifactNoBlob(<<ConvA>>, miniSearchOptions),
      PriorArtifact(<<ConvA>>, miniSearchOptions, EmptyText),
      PriorArtifact(<<ConvA>>, miniSearchOptions, CorruptText) }

\* Cache Storage after a deployment that changed miniSearchOptions and left
\* the ':v2' key tag alone: the artifact was persisted under the current keys
\* with the index options of the earlier build.
RedeployedCaches ==
    { PriorArtifact(<<ConvA>>, legacyMiniSearchOptions,
                    SerializeIndex(BuildIndex(legacyMiniSearchOptions, <<ConvA>>))) }

(***************************************************************************)
(* State.                                                                  *)
(***************************************************************************)
VARIABLES
    conversations,  \* useState: the record set
    miniSearch,     \* useState: the live index, or Null
    isIndexing,     \* useState
    loading,        \* useState
    didInit,        \* module-level flag
    initPc,         \* position of the init effect's async function
    tasks,          \* index effect runs whose async function is in flight
    uploads,        \* onFile calls in flight
    gen,            \* number of index effect runs of this page load
    caches,         \* Cache Storage
    marker,         \* localStorage[STORAGE_SCHEMA_KEY], as a number
    slots,          \* the other keys of localStorage
    persistedFor,   \* history: index key -> record set whose persist wrote it
    nUploads,       \* onFile calls so far
    nRestarts,      \* page reloads so far
    ev,             \* the step just taken
    hist,           \* history of this page load
    cold,           \* history: how the previous page load ended
    mig,            \* position and locals of ensureStorageUpToDate
    arg,            \* the argument of a function applied on its own
    out             \* its result

\* The variables of the App and its storage.
appVars == <<conversations, miniSearch, isIndexing, loading, didInit, initPc, tasks,
             uploads, gen, caches, marker, slots, persistedFor, nUploads, nRestarts, ev,
             hist, cold, mig>>

vars == <<conversations, miniSearch, isIndexing, loading, didInit, initPc, tasks,
          uploads, gen, caches, marker, slots, persistedFor, nUploads, nRestarts, ev,
          hist, cold, mig, arg, out>>

\* op: what the step did; tid: the effect run (or onFile call) it belongs
\* to; cancelled: the run's `cancelled` flag as the step read it; installed:
\* whether the step called setMiniSearch with an index.
Event(op, tid, cancelled, cause) ==
    [op |-> op, tid |-> tid, cancelled |-> cancelled, cause |-> cause,
     installed |-> FALSE]

Installed(op, tid, cause) ==
    [op |-> op, tid |-> tid, cancelled |-> FALSE, cause |-> cause, installed |-> TRUE]

NoTasks == [t \in {} |-> Null]

\* Known previous cache names.
LEGACY_CACHE_NAMES == <<"myCache", "chatgpt-search-cache-v1">>

\* The locals of ensureStorageUpToDate, migrateLegacyCaches,
\* migrateCacheEntries and copyCacheEntry.  pc: the await the call is
\* suspended at; start: Cache Storage when the call began (history);
\* existing: the set made of caches.keys(); todo: the versioned names still
\* to delete; li: the position in LEGACY_CACHE_NAMES; key: the entry being
\* copied ("json", "file", "meta", "blob"); indexKey: meta.indexKey; body:
\* the response matched in the legacy cache; thrown: an error is propagating
\* through the finally block.  History: startMarker, startSlots:
\* localStorage when the call began; faults: the calls of this call that
\* failed; calls: the calls of ensureStorageUpToDate that have returned,
\* over all page loads.
MigIdle ==
    [pc |-> "idle", start |-> [n \in {} |-> EmptyCache], existing |-> {}, todo |-> <<>>,
     li |-> 0, key |-> "", indexKey |-> "", body |-> Null, thrown |-> FALSE,
     startMarker |-> UndefinedNum, startSlots |-> {}, faults |-> {}, calls |-> 0]

\* Keys that earlier builds, or other pages of the origin, left in
\* localStorage.
PriorSlots == {"chatgpt-search:conversations", "minisearch-index", "theme"}

\* cleanupLegacyLocalStorage: key.startsWith('chatgpt-search') ||
\* key.startsWith('minisearch:') || key.startsWith('minisearch-'), over the
\* keys of the model.
shouldRemove(key) == key \in {"chatgpt-search:conversations", "minisearch-index"}

\* A routine that migrates on every call, and one that never does.
AlwaysMigrates(previous) == TRUE
NeverMigrates(previous) == FALSE

\* if (previous === STORAGE_SCHEMA_VERSION) return;
NeedsMigration(previous) == previous # STORAGE_SCHEMA_VERSION


\* No function is applied on its own.
NoArg == [fn |-> "none"]
NoOut == [done |-> FALSE]

\* The causes with which a cache operation (or the serialization handed to
\* one) fails: the rejections of caches.open / cache.match / cache.put and of
\* JSON.stringify inside the try blocks.
CacheFailures ==
    {"cacheFailure", "serialize", "blobWrite", "metaWrite", "cachePutFile", "cachePutJson"}

\* clean: no cache operation has failed in this page load; uploaded, R, run:
\* the last onFile call that reached setConversations, its record set and the
\* index effect run it started; persisted: that run's persistMiniSearchIndex
\* has written its metadata.
HistInit == [clean |-> TRUE, uploaded |-> FALSE, R |-> <<>>, run |-> 0, persisted |-> FALSE]

HistAfter(h, e, convs, g) ==
    IF e.op = "restart" THEN HistInit
    ELSE IF e.op = "uploadParsed"
    THEN [h EXCEPT !.uploaded = TRUE, !.R = convs, !.run = g, !.persisted = FALSE]
    ELSE IF e.op = "persistDone" /\ h.uploaded /\ e.tid = h.run
    THEN [h EXCEPT !.persisted = TRUE]
    ELSE [h EXCEPT !.clean = h.clean /\ e.cause \notin CacheFailures]

\* At a reload: did the page load that ends here upload a record set whose
\* build and persist completed, with a working cache, nothing left in flight
\* and no later upload?
ColdAfter(h, ts, us, pc) ==
    LET ok == /\ h.clean /\ h.uploaded /\ h.persisted
              /\ DOMAIN ts = {} /\ DOMAIN us = {} /\ pc = "done"
    IN  [ok |-> ok, R |-> IF ok THEN h.R ELSE <<>>]

History ==
    /\ hist' = HistAfter(hist, ev', conversations', gen')
    /\ cold' = IF ev'.op = "restart" THEN ColdAfter(hist, tasks, uploads, initPc) ELSE cold

AppStart(priorCaches, markers) ==
    /\ conversations = <<>>
    /\ miniSearch = Null
    /\ isIndexing = FALSE
    /\ loading = FALSE
    /\ didInit = FALSE
    /\ initPc = "idle"
    /\ tasks = NoTasks
    /\ uploads = NoTasks
    /\ gen = 0
    /\ caches \in priorCaches
    /\ marker \in markers
    /\ slots = PriorSlots
    /\ persistedFor = [k \in {} |-> <<>>]
    /\ nUploads = 0
    /\ nRestarts = 0
    /\ ev = Event("start", 0, FALSE, "")
    /\ hist = HistInit
    /\ cold = [ok |-> FALSE, R |-> <<>>]
    /\ mig = MigIdle

\* The page is opened on a cache of the current schema version.
StartWith(priorCaches) ==
    /\ AppStart(priorCaches, {STORAGE_SCHEMA_VERSION})
    /\ arg = NoArg
    /\ out = NoOut

Init == StartWith(PriorCaches)

InitDamaged == StartWith(PriorCaches \cup DamagedCaches)

InitRedeployed == StartWith(RedeployedCaches)

(***************************************************************************)
(* The index effect (useEffect with the dependency [conversations]).       *)
(* React runs the previous run's cleanup and then the new run whenever     *)
(* setConversations installs a new array; the model takes the state        *)
(* update, the cleanup and the synchronous part of the new run as one      *)
(* step.                                                                   *)
(***************************************************************************)
Remove(ts, t) == [u \in DOMAIN ts \ {t} |-> ts[u]]

\* A cleanup that leaves the flag alone.
CleanupKeepsFlag(ts) == ts

\* return () => { cancelled = true; }
Cleanup(ts) == [t \in DOMAIN ts |-> [ts[t] EXCEPT !.cancelled = TRUE]]

\* An effect without the empty-record-set return.
EffectAlwaysStartsTask(convs) == TRUE

\* if (!conversations?.length) { setMiniSearch(null); setIsIndexing(false); return; }
EffectStartsTask(convs) == Len(convs) # 0

\* A restore that reads the cache for every signature.
RestoreNeverSkipped(signature) == FALSE

\* restoreMiniSearchIndex: if (!signature || signature === 'empty') return null;
RestoreSkipped(signature) == signature = "" \/ signature = "empty"

\* persistMiniSearchIndex: if (!signature || signature === 'empty' || !miniSearch) return;
PersistSkipped(signature, ms) == signature = "" \/ signature = "empty" \/ ms = Null

\* The async function of one effect run, at its first await.
NewTask(convs) ==
    LET signature == getConversationsSignature(convs)
    IN  [pc |-> IF RestoreSkipped(signature) THEN "build" ELSE "restoreMeta",
         cancelled |-> FALSE,
         conversations |-> convs,
         signature |-> signature,
         index |-> Null]

IndexEffect(convs) ==
    /\ conversations' = convs
    /\ gen' = gen + 1
    /\ IF EffectStartsTask(convs)
       THEN /\ isIndexing' = TRUE
            /\ miniSearch' = miniSearch
            /\ tasks' = (gen + 1 :> NewTask(convs)) @@ Cleanup(tasks)
       ELSE /\ miniSearch' = Null
            /\ isIndexing' = FALSE
            /\ tasks' = Cleanup(tasks)

\* An effect without the finally block.
IndexingNeverReset(task, cur) == cur

\* A finally block that resets the flag for a superseded run only.
IndexingResetWhenCancelled(task, cur) == IF task.cancelled THEN FALSE ELSE cur

\* finally { if (!cancelled) setIsIndexing(false); }
IndexingAfter(task, cur) == IF task.cancelled THEN cur ELSE FALSE

\* A restore that takes any metadata carrying a signature.
RestoreMatchesAnySignature(meta, signature, expectedIndexKey) == meta.signature # ""

\* meta?.signature === signature && meta?.indexKey === expectedIndexKey
RestoreMatches(meta, signature, expectedIndexKey) ==
    meta.signature = signature /\ meta.indexKey = expectedIndexKey

\* A restore without its catch block: a rejected cache read or a throwing
\* loadJSON rejects the effect's async function.
RestoreFailureEscapes(ts, t, cause) ==
    IF cause \in {"cacheFailure", "deserializeThrows"}
    THEN [u \in DOMAIN ts \ {t} |-> ts[u]]
    ELSE [ts EXCEPT ![t].pc = "build"]

\* restoreMiniSearchIndex returns null (the catch block included), and the
\* effect goes on to `new MiniSearch(...)` and `await addAllAsync(conversations)`.
AfterRestoreMiss(ts, t, cause) == [ts EXCEPT ![t].pc = "build"]

\* restoreMiniSearchIndex up to the metadata: cacheGetJson(MINISEARCH_META_KEY)
\* resolves or rejects (caught; restore returns null and the build starts).
TaskRestoreMeta(t) ==
    /\ t \in DOMAIN tasks
    /\ tasks[t].pc = "restoreMeta"
    /\ \E ok \in BOOLEAN :
        LET task == tasks[t]
            present == ok /\ CacheHas(caches, CACHE_NAME, MINISEARCH_META_KEY)
            hit == /\ present
                   /\ RestoreMatches(CacheBody(caches, CACHE_NAME, MINISEARCH_META_KEY),
                                     task.signature, getMiniSearchIndexKey(task.signature))
            cause == IF ~ok THEN "cacheFailure"
                     ELSE IF ~present THEN "metaAbsent" ELSE "mismatch"
        IN  /\ caches' = IF ok THEN CachesOpen(caches, CACHE_NAME) ELSE caches
            /\ tasks' = IF hit THEN [tasks EXCEPT ![t].pc = "restoreBlob"]
                         ELSE AfterRestoreMiss(tasks, t, cause)
            /\ ev' = IF hit THEN Event("restoreMetaHit", t, task.cancelled, "")
                     ELSE Event("restoreMiss", t, task.cancelled, cause)
    /\ UNCHANGED <<conversations, miniSearch, isIndexing, loading, didInit, initPc,
                   uploads, gen, marker, persistedFor, nUploads, nRestarts>>
    /\ History
    /\ UNCHANGED <<mig, slots, arg, out>>

\* An effect whose restore branch does not return.
RestoredFallsThrough(ts, t) == [ts EXCEPT ![t].pc = "build"]

\* if (restored) { if (cancelled) return; setMiniSearch(restored); return; }
OnRestored(ts, t) == Remove(ts, t)

\* restoreMiniSearchIndex from cacheGetText(expectedIndexKey) on, and the
\* effect's continuation after `await restoreMiniSearchIndex(...)`.
TaskRestoreBlob(t) ==
    /\ t \in DOMAIN tasks
    /\ tasks[t].pc = "restoreBlob"
    /\ \E ok \in BOOLEAN :
        LET task == tasks[t]
            key == getMiniSearchIndexKey(task.signature)
            present == ok /\ CacheHas(caches, CACHE_NAME, key)
            nonEmpty == present /\ CacheBody(caches, CACHE_NAME, key) # EmptyText
            loads == nonEmpty /\ IsIndexText(CacheBody(caches, CACHE_NAME, key))
            cause == IF ~ok THEN "cacheFailure"
                     ELSE IF ~present THEN "blobAbsent"
                     ELSE IF ~nonEmpty THEN "blobEmpty" ELSE "deserializeThrows"
        IN  /\ caches' = IF ok THEN CachesOpen(caches, CACHE_NAME) ELSE caches
            /\ IF loads
               THEN /\ tasks' = OnRestored(tasks, t)
                    /\ miniSearch' =
                         IF task.cancelled THEN miniSearch
                         ELSE LoadJSON(CacheBody(caches, CACHE_NAME, key), miniSearchOptions)
                    /\ isIndexing' = IndexingAfter(task, isIndexing)
                    /\ ev' = IF task.cancelled THEN Event("restoreHit", t, TRUE, "")
                             ELSE Installed("restoreHit", t, "")
               ELSE /\ tasks' = AfterRestoreMiss(tasks, t, cause)
                    /\ UNCHANGED <<miniSearch, isIndexing>>
                    /\ ev' = Event("restoreMiss", t, task.cancelled, cause)
    /\ UNCHANGED <<conversations, loading, didInit, initPc, uploads, gen, marker,
                   persistedFor, nUploads, nRestarts>>
    /\ History
    /\ UNCHANGED <<mig, slots, arg, out>>

\* A build that is installed whatever the flag says.
BuildNeverDiscarded(task) == FALSE

\* if (cancelled) return;  after `await nextMiniSearch.addAllAsync(conversations)`
BuildDiscarded(task) == task.cancelled

\* await nextMiniSearch.addAllAsync(conversations) settles; then
\* `if (cancelled) return; setMiniSearch(nextMiniSearch)` and
\* persistMiniSearchIndex up to its first cache write.
TaskBuildDone(t) ==
    /\ t \in DOMAIN tasks
    /\ tasks[t].pc = "build"
    /\ LET task == tasks[t]
           built == BuildIndex(miniSearchOptions, task.conversations)
       IN  IF BuildThrows(task.conversations)
           THEN /\ tasks' = Remove(tasks, t)
                /\ isIndexing' = IndexingAfter(task, isIndexing)
                /\ miniSearch' = miniSearch
                /\ ev' = Event("buildFailed", t, task.cancelled, "addAllAsync")
           ELSE IF BuildDiscarded(task)
           THEN /\ tasks' = Remove(tasks, t)
                /\ UNCHANGED <<isIndexing, miniSearch>>
                /\ ev' = Event("buildDiscarded", t, TRUE, "")
           ELSE /\ miniSearch' = built
                /\ IF PersistSkipped(task.signature, built)
                   THEN /\ tasks' = Remove(tasks, t)
                        /\ isIndexing' = IndexingAfter(task, isIndexing)
                        /\ ev' = Installed("buildDone", t, "persistSkipped")
                   ELSE \E serialized \in BOOLEAN :
                        IF serialized
                        THEN /\ tasks' = [tasks EXCEPT ![t].pc = "persistBlob",
                                                       ![t].index = built]
                             /\ isIndexing' = isIndexing
                             /\ ev' = Installed("buildDone", t, "")
                        ELSE /\ tasks' = Remove(tasks, t)
                             /\ isIndexing' = IndexingAfter(task, isIndexing)
                             /\ ev' = Installed("persistFailed", t, "serialize")
    /\ UNCHANGED <<conversations, loading, didInit, initPc, uploads, gen, caches,
                   marker, persistedFor, nUploads, nRestarts>>
    /\ History
    /\ UNCHANGED <<mig, slots, arg, out>>

\* A persist that serializes an index no document was added to.
PersistUnfilledIndex(task) == SerializeIndex(BuildIndex(miniSearchOptions, <<>>))

\* indexText = JSON.stringify(miniSearch.toJSON()) of the index handed to persist.
PersistIndexText(task) == SerializeIndex(task.index)

\* await cachePutText(indexText, indexKey)
TaskPersistBlob(t) ==
    /\ t \in DOMAIN tasks
    /\ tasks[t].pc = "persistBlob"
    /\ \E ok \in BOOLEAN :
        LET task == tasks[t]
            key == getMiniSearchIndexKey(task.signature)
        IN  IF ok
            THEN /\ caches' = CachePut(caches, CACHE_NAME, key, PersistIndexText(task))
                 /\ persistedFor' = (key :> task.conversations) @@ persistedFor
                 /\ tasks' = [tasks EXCEPT ![t].pc = "persistMeta"]
                 /\ isIndexing' = isIndexing
                 /\ ev' = Event("persistBlobDone", t, task.cancelled, "")
            ELSE /\ UNCHANGED <<caches, persistedFor>>
                 /\ tasks' = Remove(tasks, t)
                 /\ isIndexing' = IndexingAfter(task, isIndexing)
                 /\ ev' = Event("persistFailed", t, task.cancelled, "blobWrite")
    /\ UNCHANGED <<conversations, miniSearch, loading, didInit, initPc, uploads, gen,
                   marker, nUploads, nRestarts>>
    /\ History
    /\ UNCHANGED <<mig, slots, arg, out>>

\* await cachePutJson(meta, MINISEARCH_META_KEY), and the effect's finally.
TaskPersistMeta(t) ==
    /\ t \in DOMAIN tasks
    /\ tasks[t].pc = "persistMeta"
    /\ \E ok \in BOOLEAN :
        LET task == tasks[t]
        IN  /\ caches' = IF ok
                         THEN CachePut(caches, CACHE_NAME, MINISEARCH_META_KEY,
                                       MetaRecord(task.signature, miniSearchOptions))
                         ELSE caches
            /\ tasks' = Remove(tasks, t)
            /\ isIndexing' = IndexingAfter(task, isIndexing)
            /\ ev' = IF ok THEN Event("persistDone", t, task.cancelled, "")
                     ELSE Event("persistFailed", t, task.cancelled, "metaWrite")
    /\ UNCHANGED <<conversations, miniSearch, loading, didInit, initPc, uploads, gen,
                   marker, persistedFor, nUploads, nRestarts>>
    /\ History
    /\ UNCHANGED <<mig, slots, arg, out>>

(***************************************************************************)
(* The init effect.  ensureStorageUpToDate returns at once when the marker *)
(* holds the current version and the function then awaits                  *)
(* cacheGetJson('json'); otherwise it calls migrateLegacyCaches first.     *)
(***************************************************************************)
InitEffect ==
    /\ ~didInit
    /\ didInit' = TRUE
    /\ loading' = TRUE
    /\ initPc' = IF NeedsMigration(marker) THEN "migrate" ELSE "getJson"
    /\ mig' = IF NeedsMigration(marker)
               THEN [MigIdle EXCEPT !.pc = "keys", !.start = caches, !.startMarker = marker,
                                    !.startSlots = slots, !.calls = mig.calls]
               ELSE [mig EXCEPT !.calls = @ + 1]
    /\ ev' = Event("initStart", 0, FALSE, "")
    /\ UNCHANGED <<conversations, miniSearch, isIndexing, tasks, uploads, gen, caches,
                   marker, persistedFor, nUploads, nRestarts>>
    /\ History
    /\ UNCHANGED <<slots, arg, out>>

\* c = await cacheGetJson('json'); setConversations(c || []); finally
\* setLoading(false).  The locals of ensureStorageUpToDate, which has
\* returned, are gone.
InitJsonDone ==
    /\ initPc = "getJson"
    /\ initPc' = "done"
    /\ loading' = FALSE
    /\ \E ok \in BOOLEAN :
        IF ok
        THEN /\ caches' = CachesOpen(caches, CACHE_NAME)
             /\ IndexEffect(IF CacheHas(caches, CACHE_NAME, "json")
                            THEN JsonParse(CacheBody(caches, CACHE_NAME, "json"))
                            ELSE <<>>)
             /\ ev' = Event("initLoaded", 0, FALSE, "")
        ELSE /\ UNCHANGED <<caches, conversations, miniSearch, isIndexing, tasks, gen>>
             /\ ev' = Event("initFailed", 0, FALSE, "cacheFailure")
    /\ UNCHANGED <<didInit, uploads, marker, persistedFor, nUploads, nRestarts>>
    /\ History
    /\ mig' = [MigIdle EXCEPT !.pc = mig.pc, !.calls = mig.calls]
    /\ UNCHANGED <<slots, arg, out>>

(***************************************************************************)
(* onFile.                                                                 *)
(***************************************************************************)
\* e.target.files[0] is undefined: the picker was dismissed.
NoFile == [kind |-> "none", conversations |-> <<>>]

\* setLoading(true); if (!file) return; ... await processFile(file)
OnFile ==
    /\ didInit
    /\ nUploads < MaxUploads
    /\ nUploads' = nUploads + 1
    /\ \E file \in Files \cup {NoFile} :
        IF file = NoFile
        THEN /\ loading' = FALSE
             /\ uploads' = uploads
             /\ ev' = Event("uploadNoFile", nUploads + 1, FALSE, "")
        ELSE /\ loading' = TRUE
             /\ uploads' = (nUploads + 1 :> [pc |-> "process", file |-> file]) @@ uploads
             /\ ev' = Event("uploadStart", nUploads + 1, FALSE, "")
    /\ UNCHANGED <<conversations, miniSearch, isIndexing, didInit, initPc, tasks, gen,
                   caches, marker, persistedFor, nRestarts>>
    /\ History
    /\ UNCHANGED <<mig, slots, arg, out>>

\* processFile goes on as if every archive parsed.
ProcessFileNeverRejects(file) == FALSE

\* The promise of processFile(file) is rejected.
ProcessFileRejects(file) == file.kind # "zip"

\* processFile settles; setConversations(conversations); await cachePutFile(file, 'file')
UploadProcessed(u) ==
    /\ u \in DOMAIN uploads
    /\ uploads[u].pc = "process"
    /\ IF ~ProcessFileRejects(uploads[u].file)
       THEN /\ IndexEffect(uploads[u].file.conversations)
            /\ uploads' = [uploads EXCEPT ![u].pc = "putFile"]
            /\ loading' = loading
            /\ ev' = Event("uploadParsed", u, FALSE, "")
       ELSE /\ uploads' = Remove(uploads, u)
            /\ loading' = FALSE
            /\ UNCHANGED <<conversations, miniSearch, isIndexing, tasks, gen>>
            /\ ev' = Event("uploadFailed", u, FALSE, "processFile")
    /\ UNCHANGED <<didInit, initPc, caches, marker, persistedFor, nUploads, nRestarts>>
    /\ History
    /\ UNCHANGED <<mig, slots, arg, out>>

\* cachePutFile settles; await cachePutJson(conversations, 'json')
UploadPutFile(u) ==
    /\ u \in DOMAIN uploads
    /\ uploads[u].pc = "putFile"
    /\ \E ok \in BOOLEAN :
        IF ok
        THEN /\ caches' = CachePut(caches, CACHE_NAME, "file", uploads[u].file)
             /\ uploads' = [uploads EXCEPT ![u].pc = "putJson"]
             /\ loading' = loading
             /\ ev' = Event("uploadFileCached", u, FALSE, "")
        ELSE /\ caches' = caches
             /\ uploads' = Remove(uploads, u)
             /\ loading' = FALSE
             /\ ev' = Event("uploadFailed", u, FALSE, "cachePutFile")
    /\ UNCHANGED <<conversations, miniSearch, isIndexing, didInit, initPc, tasks, gen,
                   marker, persistedFor, nUploads, nRestarts>>
    /\ History
    /\ UNCHANGED <<mig, slots, arg, out>>

\* cachePutJson settles; finally setLoading(false)
UploadPutJson(u) ==
    /\ u \in DOMAIN uploads
    /\ uploads[u].pc = "putJson"
    /\ uploads' = Remove(uploads, u)
    /\ loading' = FALSE
    /\ \E ok \in BOOLEAN :
        IF ok
        THEN /\ caches' = CachePut(caches, CACHE_NAME, "json",
                                   JsonStringify(uploads[u].file.conversations))
             /\ ev' = Event("uploadDone", u, FALSE, "")
        ELSE /\ caches' = caches
             /\ ev' = Event("uploadFailed", u, FALSE, "cachePutJson")
    /\ UNCHANGED <<conversations, miniSearch, isIndexing, didInit, initPc, tasks, gen,
                   marker, persistedFor, nUploads, nRestarts>>
    /\ History
    /\ UNCHANGED <<mig, slots, arg, out>>

(***************************************************************************)
(* The page is reloaded: the in-memory state is lost, whatever was in      *)
(* flight is dropped, Cache Storage and localStorage stay.                 *)
(***************************************************************************)
Restart ==
    /\ nRestarts < MaxRestarts
    /\ nRestarts' = nRestarts + 1
    /\ conversations' = <<>>
    /\ miniSearch' = Null
    /\ isIndexing' = FALSE
    /\ loading' = FALSE
    /\ didInit' = FALSE
    /\ initPc' = "idle"
    /\ tasks' = NoTasks
    /\ uploads' = NoTasks
    /\ gen' = 0
    /\ mig' = [MigIdle EXCEPT !.calls = mig.calls]
    /\ ev' = Event("restart", 0, FALSE, "")
    /\ UNCHANGED <<caches, marker, persistedFor, nUploads>>
    /\ History
    /\ UNCHANGED <<slots, arg, out>>

TaskIds == 1..(MaxUploads + 1)
UploadIds == 1..MaxUploads

Next ==
    \/ InitEffect
    \/ InitJsonDone
    \/ OnFile
    \/ \E u \in UploadIds : UploadProcessed(u)
    \/ \E u \in UploadIds : UploadPutFile(u)
    \/ \E u \in UploadIds : UploadPutJson(u)
    \/ \E t \in TaskIds : TaskRestoreMeta(t)
    \/ \E t \in TaskIds : TaskRestoreBlob(t)
    \/ \E t \in TaskIds : TaskBuildDone(t)
    \/ \E t \in TaskIds : TaskPersistBlob(t)
    \/ \E t \in TaskIds : TaskPersistMeta(t)
    \/ Restart

Spec == Init /\ [][Next]_vars

\* The same program started on a cache that may have lost its index body.
SpecDamaged == InitDamaged /\ [][Next]_vars

\* The same program started on the cache of a build with other index options.
SpecRedeployed == InitRedeployed /\ [][Next]_vars

(***************************************************************************)
(* Properties.                                                             *)
(***************************************************************************)
MetaPresent == CacheHas(caches, CACHE_NAME, MINISEARCH_META_KEY)
MetaBody == CacheBody(caches, CACHE_NAME, MINISEARCH_META_KEY)
IndexKeyOf(signature) == "minisearch:index:" \o signature \o ":v2"
BlobPresent(signature) == CacheHas(caches, CACHE_NAME, IndexKeyOf(signature))
BlobBody(signature) == CacheBody(caches, CACHE_NAME, IndexKeyOf(signature))
CurrentSignature == getConversationsSignature(conversations)

\* An effect run is superseded once a later run of the effect has started.
Superseded(t) == t # gen

\* C1: when the record set changes while an index task (restore or build) is
\* in flight, the task is flagged as superseded, and when its restore or
\* build completes the index it produced is not installed as the live index:
\* every step that installs an index belongs to the latest effect run, every
\* in-flight task of an earlier run carries the flag, and a step of a
\* superseded task leaves the live index as the latest run set it.
C1_CancellationOnSupersession ==
    /\ ev.installed => ~Superseded(ev.tid)
    /\ \A t \in DOMAIN tasks : Superseded(t) => tasks[t].cancelled
    /\ (ev.op \in {"restoreHit", "buildDiscarded"} /\ Superseded(ev.tid)) => ~ev.installed

\* A superseded task's restore completed with a usable index while another
\* record set was current, and the index was dropped.
C1_Witness ==
    /\ ev.op = "restoreHit"
    /\ Superseded(ev.tid)
    /\ ev.cancelled
    /\ ~ev.installed
    /\ conversations # <<>>

\* C2: on a restore hit (metadata matching the fingerprint and the derived
\* key, blob present and non-empty, deserialization succeeding) of a load
\* that has not been superseded, the restored index is the live index, the
\* indexing flag is cleared, and the load ends there: its task is over, so
\* neither the build step nor the persist writes, which only in-flight tasks
\* take, happen for it.  A restore that does not hit names a condition of
\* the hit that failed.
C2_RestoreHit ==
    /\ ev.op = "restoreHit" =>
        /\ ev.tid \notin DOMAIN tasks
        /\ ev.installed =>
            /\ BlobPresent(CurrentSignature)
            /\ miniSearch = LoadJSON(BlobBody(CurrentSignature), miniSearchOptions)
            /\ miniSearch # Null
            /\ isIndexing = FALSE
    /\ (ev.op = "restoreMiss" /\ ev.cause \in {"metaAbsent", "mismatch"}) =>
        ~(/\ MetaPresent
          /\ MetaBody.signature = tasks[ev.tid].signature
          /\ MetaBody.indexKey = IndexKeyOf(tasks[ev.tid].signature))
    /\ (ev.op = "restoreMiss" /\ ev.cause \in {"blobAbsent", "blobEmpty", "deserializeThrows"}) =>
        ~(/\ BlobPresent(tasks[ev.tid].signature)
          /\ BlobBody(tasks[ev.tid].signature) # EmptyText
          /\ IsIndexText(BlobBody(tasks[ev.tid].signature)))

\* The current load restored its index from the cache.
C2_Witness ==
    /\ ev.op = "restoreHit"
    /\ ev.installed
    /\ ~Superseded(ev.tid)
    /\ miniSearch = LoadJSON(BlobBody(CurrentSignature), miniSearchOptions)
    /\ isIndexing = FALSE
    /\ tasks = NoTasks

\* C3: every way a restore fails (cache operation rejected, metadata absent,
\* metadata for another fingerprint or key, blob absent, blob empty,
\* deserialization throwing) is a miss and nothing else: the task goes on to
\* the build with the full record sequence of its load.  A build that
\* completes is installed as the live index unless the load was superseded:
\* the installed index is the index built from the current record set, and a
\* built index is dropped only for a superseded load.
C3_RestoreMissBuilds ==
    /\ ev.op = "restoreMiss" =>
        /\ ev.tid \in DOMAIN tasks
        /\ tasks[ev.tid].pc = "build"
        /\ tasks[ev.tid].conversations # <<>>
        /\ ~Superseded(ev.tid) => tasks[ev.tid].conversations = conversations
    /\ (ev.installed /\ ev.op # "restoreHit") =>
        /\ miniSearch = BuildIndex(miniSearchOptions, conversations)
        /\ ~Superseded(ev.tid)
    /\ ev.op = "buildDiscarded" => Superseded(ev.tid)

\* The persisted blob of the current load did not deserialize, and the load
\* is at its build.
C3_Witness ==
    /\ ev.op = "restoreMiss"
    /\ ev.cause = "deserializeThrows"
    /\ ~Superseded(ev.tid)
    /\ tasks[ev.tid].pc = "build"
    /\ tasks[ev.tid].conversations = conversations

\* The step reads the blob of task t and hands it to loadJSON.
ReadsBlob(t) ==
    /\ t \in DOMAIN tasks
    /\ tasks[t].pc = "restoreBlob"
    /\ t \notin DOMAIN tasks' \/ tasks'[t].pc # "restoreBlob"

\* The step takes task t to the blob read.
EntersBlobRead(t) ==
    /\ t \in DOMAIN tasks'
    /\ tasks'[t].pc = "restoreBlob"
    /\ t \notin DOMAIN tasks \/ tasks[t].pc # "restoreBlob"

\* C4: a metadata record whose fingerprint or storage key differs from the
\* load's freshly computed fingerprint and the key derived from it is a full
\* miss: a task gets to the blob read only in a step that found metadata
\* equal on both, and the live index changes only to null, to the index
\* built from the current record set, or to the blob read by a task that
\* got there.
C4_MismatchIsFullMiss ==
    [][/\ \A t \in TaskIds : EntersBlobRead(t) =>
            /\ MetaPresent
            /\ MetaBody.signature = getConversationsSignature(tasks'[t].conversations)
            /\ MetaBody.indexKey =
                 IndexKeyOf(getConversationsSignature(tasks'[t].conversations))
       /\ miniSearch' # miniSearch =>
            \/ miniSearch' = Null
            \/ miniSearch' = BuildIndex(miniSearchOptions, conversations')
            \/ \E t \in TaskIds :
                /\ ReadsBlob(t)
                /\ miniSearch' = LoadJSON(BlobBody(tasks[t].signature), miniSearchOptions)
      ]_vars

\* The metadata is for another record set while the blob of the load's own
\* fingerprint is in the cache: the load did not read it and is at its build.
C4_Witness ==
    /\ ev.op = "restoreMiss"
    /\ ev.cause = "mismatch"
    /\ MetaPresent
    /\ BlobPresent(tasks[ev.tid].signature)
    /\ IsIndexText(BlobBody(tasks[ev.tid].signature))
    /\ tasks[ev.tid].pc = "build"
    /\ miniSearch = Null

C6_PersistBlobThenMeta ==
    /\ [](
        /\ \A t \in DOMAIN tasks : tasks[t].pc \in {"persistBlob", "persistMeta"} =>
            /\ ~BuildThrows(tasks[t].conversations)
            /\ tasks[t].index = BuildIndex(miniSearchOptions, tasks[t].conversations)
            /\ tasks[t].signature = getConversationsSignature(tasks[t].conversations)
        /\ \A t \in DOMAIN tasks : tasks[t].pc = "persistMeta" =>
            /\ BlobPresent(tasks[t].signature)
            /\ IsIndexText(BlobBody(tasks[t].signature))
        /\ (ev.op = "buildDone" /\ ev.cause = "") =>
            /\ ~Superseded(ev.tid)
            /\ tasks[ev.tid].pc = "persistBlob"
        /\ ev.op = "persistBlobDone" =>
            /\ BlobPresent(tasks[ev.tid].signature)
            /\ BlobBody(tasks[ev.tid].signature) = SerializeIndex(tasks[ev.tid].index)
        /\ ev.op = "persistDone" =>
            /\ MetaPresent
            /\ MetaBody.indexKey = IndexKeyOf(MetaBody.signature)
            /\ MetaBody.miniSearchOptions = miniSearchOptions
            /\ BlobPresent(MetaBody.signature)
            /\ IsIndexText(BlobBody(MetaBody.signature))
       )
    /\ [][
        (MetaPresent' /\ (~MetaPresent \/ MetaBody' # MetaBody)) =>
            \E t \in DOMAIN tasks :
                /\ tasks[t].pc = "persistMeta"
                /\ t \notin DOMAIN tasks'
                /\ BlobPresent(tasks[t].signature)
                /\ MetaBody'.signature = tasks[t].signature
       ]_vars

\* A persist of the current record set has written its blob and then its
\* metadata.
C6_Witness ==
    /\ ev.op = "persistDone"
    /\ ~ev.cancelled
    /\ MetaBody.signature = CurrentSignature
    /\ MetaBody.indexKey = IndexKeyOf(CurrentSignature)
    /\ BlobBody(CurrentSignature) = SerializeIndex(miniSearch)

\* C7: a failure during persist (serialization, the blob write or the
\* metadata write) is not fatal: the index built by a load that is not
\* superseded stays the live index, the indexing flag is cleared and the
\* task is over; the failing step writes nothing to the cache, so that the
\* only effect is the artifact that was not completed.
C7_PersistFailureNonFatal ==
    /\ [](
        ev.op = "persistFailed" =>
            /\ ev.tid \notin DOMAIN tasks
            /\ ~Superseded(ev.tid) =>
                /\ miniSearch = BuildIndex(miniSearchOptions, conversations)
                /\ miniSearch # Null
                /\ isIndexing = FALSE
       )
    /\ [][
        ev'.op = "persistFailed" =>
            /\ caches' = caches
            /\ conversations' = conversations
            /\ loading' = loading
            /\ miniSearch' = miniSearch \/ ev'.installed
       ]_vars

\* The metadata write of the current load failed after its blob write: the
\* built index is live and the metadata is not that of the load.
C7_Witness ==
    /\ ev.op = "persistFailed"
    /\ ev.cause = "metaWrite"
    /\ ~Superseded(ev.tid)
    /\ miniSearch = BuildIndex(miniSearchOptions, conversations)
    /\ isIndexing = FALSE
    /\ BlobPresent(CurrentSignature)
    /\ ~MetaPresent

\* C8: cold-start fast path.  The previous page load uploaded a record set
\* R whose build and persist completed, with no cache failure, nothing left
\* in flight and no later upload; the new page load, as long as its cache
\* works and nothing is uploaded, loads R from 'json' and gets its live
\* index by restore: no task of it reaches the build.
C8_ColdStartFastPath ==
    (cold.ok /\ hist.clean /\ ~hist.uploaded) =>
        /\ initPc = "done" => conversations = cold.R
        /\ \A t \in DOMAIN tasks : tasks[t].pc \in {"restoreMeta", "restoreBlob"}
        /\ ev.op \notin {"buildDone", "buildFailed", "buildDiscarded",
                         "persistBlobDone", "persistDone", "persistFailed"}

C10_EmptyRecordSet ==
    /\ \A t \in DOMAIN tasks : tasks[t].conversations # <<>>
    /\ conversations = <<>> =>
        /\ miniSearch = Null
        /\ isIndexing = FALSE
        /\ \A t \in DOMAIN tasks : Superseded(t) /\ tasks[t].cancelled
        /\ \A q \in Queries : \A sortBy \in SortModes : \A fuzzy \in BOOLEAN :
            SearchResults(q, conversations, fuzzy, miniSearch, sortBy) = <<>>

\* An upload of an empty export replaced a record set whose index task is
\* still in flight.
C10_Witness ==
    /\ conversations = <<>>
    /\ ev.op = "uploadParsed"
    /\ gen >= 2
    /\ \E t \in DOMAIN tasks : tasks[t].pc = "build"
    /\ miniSearch = Null
    /\ isIndexing = FALSE

\* Queries of white space only.
BlankQueries == {<<>>, <<Space>>, <<Space, Space>>, <<9>>, <<10, Space, 13>>}

\* C11: an empty or white-space-only query gives the empty result sequence,
\* in fuzzy and in exact mode and under every sort mode, whatever the record
\* set and the live index are.
C11_BlankQueryIsEmpty ==
    \A q \in BlankQueries : \A fuzzy \in BOOLEAN : \A sortBy \in SortModes :
        SearchResults(q, conversations, fuzzy, miniSearch, sortBy) = <<>>

\* Two records are loaded and indexed, each holds a space in its text, and a
\* query that is not blank finds both in either mode.
C11_Witness ==
    /\ Len(conversations) = 2
    /\ miniSearch = BuildIndex(miniSearchOptions, conversations)
    /\ \A i \in 1..2 : includes(conversations[i].text, <<Space>>)
    /\ Len(SearchResults(<<116, 32, 120>>, conversations, TRUE, miniSearch, "updated")) = 2
    /\ Len(SearchResults(<<91, 117>>, conversations, FALSE, miniSearch, "updated")) = 2
    /\ SearchResults(<<Space>>, conversations, FALSE, miniSearch, "updated") = <<>>

(***************************************************************************)
(* getConversationsSignature applied on its own: two record sequences are  *)
(* drawn and the signature of each is computed.                            *)
(***************************************************************************)
MaxRecords == 2
MaxUpdated == 2

\* Records with the ids "a", "u" and "a:1|u", update times 1..MaxUpdated and
\* one of two bodies (title, text, creation time).
SigRecords ==
    {[id |-> id, updated |-> u, title |-> b.title, text |-> b.text, time |-> b.time] :
        id \in {<<97>>, <<117>>, <<97, Colon, 49, Bar, 117>>},
        u \in 1..MaxUpdated,
        b \in {[title |-> <<84>>, text |-> <<91, 117, 93, 32, 120>>, time |-> 1],
               [title |-> <<120>>, text |-> <<>>, time |-> 2]}}

SigArgs ==
    LET sets == UNION {[1..n -> SigRecords] : n \in 0..MaxRecords}
    IN  [fn : {"signature"}, a : sets, b : sets]

\* The `hash` of fnv1a at its return, for a non-empty record sequence.
SignatureHash(convs) ==
    FnvLoop(<<33052, 40389>>,
            JoinWith(SortStrings([i \in 1..Len(convs) |-> SignaturePart(convs[i])]), Bar))

InitSignature ==
    /\ AppStart({[n \in {} |-> EmptyCache]}, {STORAGE_SCHEMA_VERSION})
    /\ arg \in SigArgs
    /\ out = [done |-> FALSE, a |-> "", b |-> ""]

ApplySignature ==
    /\ arg.fn = "signature"
    /\ ~out.done
    /\ out' = [done |-> TRUE,
               a |-> getConversationsSignature(arg.a),
               b |-> getConversationsSignature(arg.b)]
    /\ UNCHANGED <<appVars, arg>>

SpecSignature == InitSignature /\ [][ApplySignature]_vars

\* C12: the fingerprint depends only on the multiset of (id, updated) pairs:
\* two record sequences with the same multiset of pairs get the same
\* fingerprint, whatever the order of the records and whatever their title,
\* text or creation time.
C12_SamePairsSameFingerprint ==
    LET Pair(c) == <<c.id, c.updated>>
        Pairs(R) == {Pair(R[i]) : i \in 1..Len(R)}
        Count(R, p) == Cardinality({i \in 1..Len(R) : Pair(R[i]) = p})
        SameBag(R, S) == /\ Pairs(R) = Pairs(S)
                         /\ \A p \in Pairs(R) : Count(R, p) = Count(S, p)
    IN  out.done /\ SameBag(arg.a, arg.b) => out.a = out.b

\* Two sequences of two records with the same pairs in opposite order and
\* with different titles, texts and creation times got one fingerprint.
C12_Witness ==
    /\ out.done
    /\ Len(arg.a) = 2 /\ Len(arg.b) = 2
    /\ arg.a[1].id # arg.a[2].id
    /\ arg.a[1].id = arg.b[2].id /\ arg.a[1].updated = arg.b[2].updated
    /\ arg.a[2].id = arg.b[1].id /\ arg.a[2].updated = arg.b[1].updated
    /\ arg.a[1].title # arg.b[2].title
    /\ arg.a[1].text # arg.b[2].text
    /\ arg.a[1].time # arg.b[2].time
    /\ out.a = out.b
    /\ out.a # "empty"

\* C13: two record sequences whose multisets of (id, updated) pairs differ
\* get different fingerprints, for ids that are arbitrary strings (also
\* ones holding ':' or '|') and integer update times.
C13_OtherPairsOtherFingerprint ==
    LET Pair(c) == <<c.id, c.updated>>
        Pairs(R) == {Pair(R[i]) : i \in 1..Len(R)}
        Count(R, p) == Cardinality({i \in 1..Len(R) : Pair(R[i]) = p})
        SameBag(R, S) == /\ Pairs(R) = Pairs(S)
                         /\ \A p \in Pairs(R) : Count(R, p) = Count(S, p)
    IN  out.done /\ ~SameBag(arg.a, arg.b) => out.a # out.b

\* C14 as stated: the fingerprint of every non-empty record set is a
\* fixed-width hexadecimal string of 8 digits, also when the unsigned hash
\* is below 0x10000000.
C14_FixedWidth ==
    out.done /\ arg.a # <<>> => Len(out.a) = 8

\* C14 as amended: the fingerprint of a non-empty record set is the unsigned
\* hash in hexadecimal without leading zeros, 1 to 8 digits long: k digits
\* when the hash is below 16^k and not below 16^(k-1), so 8 digits exactly
\* when the hash is 0x10000000 or more.
C14_CompactWidth ==
    out.done /\ arg.a # <<>> =>
        LET h == SignatureHash(arg.a)
            k == Len(out.a)
            \* the unsigned hash is below 16^n, on the halves
            HashBelow16To(n) ==
                IF n <= 4 THEN h[1] = 0 /\ h[2] < 16 ^ n ELSE h[1] < 16 ^ (n - 4)
        IN  /\ k \in 1..8
            /\ HashBelow16To(k)
            /\ k > 1 => ~HashBelow16To(k - 1)
            /\ (k = 8) = (h[1] >= 4096)

\* The record "u" updated at 1 was fingerprinted: its hash 0x0f04cbfd is
\* rendered in seven digits.
C14_Witness ==
    /\ out.done
    /\ Len(arg.a) = 1
    /\ SignatureHash(arg.a)[1] < 4096
    /\ out.a = "f04cbfd"

(***************************************************************************)
(* processFile applied on its own: the conversations.json of the archive   *)
(* is drawn and transformed.  An entry's mapping is present or not; its    *)
(* nodes are in the order of Object.values.  A node carries a message or   *)
(* not; a message's content has parts or not.                              *)
(***************************************************************************)
MaxEntries == 2
MaxNodes == 2

\* A structural node, "[u] x", "[a] t x", a message without parts and a
\* message with no part at all.
RawNodes ==
    {[message |-> FALSE, role |-> <<>>, hasParts |-> FALSE, parts |-> <<>>],
     [message |-> TRUE, role |-> <<117>>, hasParts |-> TRUE, parts |-> <<<<120>>>>],
     [message |-> TRUE, role |-> <<97>>, hasParts |-> TRUE, parts |-> <<<<116>>, <<120>>>>],
     [message |-> TRUE, role |-> <<117>>, hasParts |-> FALSE, parts |-> <<>>],
     [message |-> TRUE, role |-> <<97>>, hasParts |-> TRUE, parts |-> <<>>]}

RawMappings ==
    {[present |-> FALSE, nodes |-> <<>>]}
        \cup [present : {TRUE}, nodes : UNION {[1..n -> RawNodes] : n \in 0..MaxNodes}]

RawEntries ==
    [title : {<<84>>}, conversation_id : {<<97>>, <<98>>}, create_time : 1..2,
     update_time : {3}, mapping : RawMappings]

\* doc: what zip.file('conversations.json') and JSON.parse give: no such
\* file, text that is no JSON, a JSON object, or an array of entries.
RawExports ==
    [fn : {"processFile"}, doc : {"noFile", "badJson", "object"}, entries : {<<>>}]
        \cup [fn : {"processFile"}, doc : {"array"},
              entries : UNION {[1..n -> RawEntries] : n \in 0..MaxEntries}]

\* message.content.parts?.join(' '): undefined without parts.
mapMessage(node) ==
    [author |-> node.role,
     text |-> IF node.hasParts THEN JoinWith(node.parts, Space) ELSE Undefined]

\* `[${m.author}] ${m.text}`
MessageLine(m) == <<91>> \o m.author \o <<93, Space>> \o ToStr(m.text)

\* Object.values(conversation.mapping) throws a TypeError on undefined.
MapConversationThrows(conversation) == ~conversation.mapping.present

\* A transformation that keeps the nodes in reverse.
mapConversationReversed(conversation) ==
    LET carrying == SelectSeq(conversation.mapping.nodes, LAMBDA m : m.message)
        messages == [i \in 1..Len(carrying) |-> mapMessage(carrying[Len(carrying) + 1 - i])]
    IN  [title |-> conversation.title,
         messages |-> messages,
         time |-> conversation.create_time,
         id |-> conversation.conversation_id,
         updated |-> conversation.update_time,
         text |-> JoinWith([i \in 1..Len(messages) |-> MessageLine(messages[i])], 10)]

\* Object.values(conversation.mapping).filter(m => m.message).map(mapMessage)
mapConversation(conversation) ==
    LET carrying == SelectSeq(conversation.mapping.nodes, LAMBDA m : m.message)
        messages == [i \in 1..Len(carrying) |-> mapMessage(carrying[i])]
    IN  [title |-> conversation.title,
         messages |-> messages,
         time |-> conversation.create_time,
         id |-> conversation.conversation_id,
         updated |-> conversation.update_time,
         text |-> JoinWith([i \in 1..Len(messages) |-> MessageLine(messages[i])], 10)]

\* a.create_time - b.create_time on two mapped records: a property the
\* record does not have is undefined and the difference NaN, which
\* Array.prototype.sort takes as +0.
sortConversation(a, b) ==
    IF "create_time" \in DOMAIN a /\ "create_time" \in DOMAIN b
    THEN a.create_time - b.create_time
    ELSE 0

\* Array.prototype.sort(sortConversation): stable.
RECURSIVE InsertConversation(_, _)
InsertConversation(x, s) ==
    IF s = <<>> THEN <<x>>
    ELSE IF sortConversation(x, Head(s)) <= 0 THEN <<x>> \o s
    ELSE <<Head(s)>> \o InsertConversation(x, Tail(s))

RECURSIVE SortConversations(_)
SortConversations(s) ==
    IF s = <<>> THEN <<>> ELSE InsertConversation(Head(s), SortConversations(Tail(s)))

\* The promise of processFile: rejected (JSON.parse of '' or of bad text,
\* json.map on an object, a throwing mapConversation) or fulfilled with the
\* record set.
processFile(doc, entries) ==
    IF doc # "array" \/ \E i \in 1..Len(entries) : MapConversationThrows(entries[i])
    THEN [ok |-> FALSE, records |-> <<>>]
    ELSE [ok |-> TRUE,
          records |-> SortConversations([i \in 1..Len(entries) |->
                                            mapConversation(entries[i])])]

InitTransform ==
    /\ AppStart({[n \in {} |-> EmptyCache]}, {STORAGE_SCHEMA_VERSION})
    /\ arg \in RawExports
    /\ out = [done |-> FALSE, ok |-> FALSE, records |-> <<>>]

ApplyProcessFile ==
    /\ arg.fn = "processFile"
    /\ ~out.done
    /\ out' = [done |-> TRUE,
               ok |-> processFile(arg.doc, arg.entries).ok,
               records |-> processFile(arg.doc, arg.entries).records]
    /\ UNCHANGED <<appVars, arg>>

SpecTransform == InitTransform /\ [][ApplyProcessFile]_vars

\* C15: the record transformer returns exactly one record per export entry
\* and the returned sequence is ordered by creation time ascending, for
\* every input order of the entries (here: entries that all have a mapping).
C15_OnePerEntrySortedByCreation ==
    /\ out.done
    /\ arg.doc = "array"
    /\ \A i \in 1..Len(arg.entries) : arg.entries[i].mapping.present
    =>
        /\ out.ok
        /\ Len(out.records) = Len(arg.entries)
        /\ \A i, j \in 1..Len(out.records) : i < j => out.records[i].time <= out.records[j].time

\* C16: an export entry with no mapping becomes a record with zero messages
\* and empty text; the transformation does not fail and the other entries
\* are loaded.
C16_MissingMappingIsNoMessages ==
    out.done /\ arg.doc = "array" =>
        /\ out.ok
        /\ Len(out.records) = Len(arg.entries)
        /\ \A i \in 1..Len(arg.entries) :
            ~arg.entries[i].mapping.present =>
                \E j \in 1..Len(out.records) :
                    /\ out.records[j].id = arg.entries[i].conversation_id
                    /\ out.records[j].time = arg.entries[i].create_time
                    /\ out.records[j].messages = <<>>
                    /\ out.records[j].text = <<>>

\* C17: a message whose content has no parts gets the empty string as its
\* text and the line "[author] " in the record's text; any other message's
\* text is its parts joined by one space.
C17_AbsentPartsIsEmptyText ==
    out.done /\ out.ok /\ Len(arg.entries) = 1 =>
        LET carrying == SelectSeq(arg.entries[1].mapping.nodes, LAMBDA m : m.message)
            messages == out.records[1].messages
        IN  /\ Len(messages) = Len(carrying)
            /\ \A i \in 1..Len(carrying) :
                /\ messages[i].text =
                      IF carrying[i].hasParts THEN JoinWith(carrying[i].parts, Space) ELSE <<>>
            /\ out.records[1].text =
                  JoinWith([i \in 1..Len(carrying) |->
                              <<91>> \o carrying[i].role \o <<93, Space>> \o
                                  (IF carrying[i].hasParts
                                   THEN JoinWith(carrying[i].parts, Space) ELSE <<>>)], 10)

\* C18: a failed upload (processFile rejects: no conversations.json,
\* unparseable JSON, a top level that is no array) leaves the loaded data
\* intact: no step of that onFile call changes the record set, the live
\* index, the index effect's runs or anything in Cache Storage (json, file,
\* metadata, index body), and its last step sets the loading flag to false.
C18_FailedUploadKeepsData ==
    [][\A u \in DOMAIN uploads :
          uploads[u].file.kind = "invalid"
              /\ (u \notin DOMAIN uploads' \/ uploads'[u] # uploads[u])
              /\ ev'.op # "restart"
          => /\ UNCHANGED <<conversations, miniSearch, isIndexing, tasks, gen, caches, marker>>
             /\ u \notin DOMAIN uploads'
             /\ ev'.op = "uploadFailed"
             /\ loading' = FALSE]_vars

\* The record set and its index were loaded from the cache, an archive that
\* does not parse was picked and its upload has just failed: the record set,
\* the index and the cached file, json, metadata and index body are there.
C18_Witness ==
    /\ ev.op = "uploadFailed" /\ ev.cause = "processFile"
    /\ conversations = <<ConvA>>
    /\ miniSearch = BuildIndex(miniSearchOptions, <<ConvA>>)
    /\ ~loading
    /\ CacheHas(caches, CACHE_NAME, "file")
    /\ CacheHas(caches, CACHE_NAME, "json")
    /\ MetaPresent /\ BlobPresent(CurrentSignature)
    /\ JsonParse(CacheBody(caches, CACHE_NAME, "json")) = conversations

(***************************************************************************)
(* ensureStorageUpToDate on a marker that is not the current version:      *)
(* migrateLegacyCaches, migrateCacheEntries and copyCacheEntry, one step   *)
(* per await.  Every Cache Storage call may reject; a rejection inside     *)
(* migrateCacheEntries passes through the finally block (thrown).          *)
(***************************************************************************)
\* A test that every cache name passes.
AnyCacheName(name) == TRUE

\* name.startsWith('chatgpt-search-cache-v'), over the names of the model.
IsVersionedCacheName(name) == name \in {"chatgpt-search-cache-v1", CACHE_NAME}

\* caches.delete(name)
CachesDelete(cs, name) == [n \in DOMAIN cs \ {name} |-> cs[n]]

\* What an earlier build left in the cache `name`: the archive, the record
\* set, the metadata under `metaKey` and the index body under `indexKey`.
LegacyArtifact(name, convs, metaKey, indexKey, options) ==
    CachePut(CachePut(CachePut(CachePut(
        [n \in {} |-> EmptyCache],
        name, "file", [kind |-> "zip", conversations |-> convs]),
        name, "json", JsonStringify(convs)),
        name, indexKey, SerializeIndex(BuildIndex(options, convs))),
        name, metaKey,
        [signature |-> getConversationsSignature(convs), indexKey |-> indexKey,
         createdAt |-> "Date.now", miniSearchOptions |-> options])

\* Cache Storage when a page of this build is opened for the first time:
\* nothing; 'myCache' as src/index.jsx fills it (':v1' keys); a legacy cache
\* of either name whose metadata is under the current metadata key; and the
\* active cache already filled beside a legacy cache of another record set.
MigrationCaches ==
    LET sigA == getConversationsSignature(<<ConvA>>)
        sigB == getConversationsSignature(<<ConvB>>)
    IN  { [n \in {} |-> EmptyCache],
          LegacyArtifact("myCache", <<ConvA>>, "minisearch:index:meta:v1",
                         "minisearch:index:" \o sigA \o ":v1", legacyMiniSearchOptions),
          LegacyArtifact("myCache", <<ConvA>>, MINISEARCH_META_KEY,
                         getMiniSearchIndexKey(sigA), miniSearchOptions),
          LegacyArtifact("chatgpt-search-cache-v1", <<ConvA>>, MINISEARCH_META_KEY,
                         getMiniSearchIndexKey(sigA), miniSearchOptions),
          LegacyArtifact("myCache", <<ConvB>>, MINISEARCH_META_KEY,
                         getMiniSearchIndexKey(sigB), miniSearchOptions)
              @@ PriorArtifact(<<ConvA>>, miniSearchOptions,
                               SerializeIndex(BuildIndex(miniSearchOptions, <<ConvA>>))) }

\* Both legacy caches beside the cache of another page of the origin.
CrowdedCaches ==
    LET sigA == getConversationsSignature(<<ConvA>>)
        sigB == getConversationsSignature(<<ConvB>>)
    IN  LegacyArtifact("myCache", <<ConvA>>, MINISEARCH_META_KEY,
                       getMiniSearchIndexKey(sigA), miniSearchOptions)
            @@ LegacyArtifact("chatgpt-search-cache-v1", <<ConvB>>, MINISEARCH_META_KEY,
                              getMiniSearchIndexKey(sigB), miniSearchOptions)
            @@ CachePut([n \in {} |-> EmptyCache], "other-app", "json",
                        JsonStringify(<<ConvB>>))

\* The marker is missing or unreadable, or holds an older version.
InitMigration ==
    /\ AppStart(MigrationCaches, {UndefinedNum, 1})
    /\ arg = NoArg
    /\ out = NoOut

\* The request key of the entry being copied.
MigKey(m) ==
    IF m.key = "meta" THEN MINISEARCH_META_KEY
    ELSE IF m.key = "blob" THEN m.indexKey
    ELSE m.key

\* for (const legacyName of LEGACY_CACHE_NAMES) from position `from` on:
\* the next name in `existing` is migrated (migrateCacheEntries awaits
\* caches.open(fromCacheName)); after the last, migrateLegacyCaches returns.
MigLoop(m, from) ==
    LET cand == {i \in from..Len(LEGACY_CACHE_NAMES) : LEGACY_CACHE_NAMES[i] \in m.existing}
    IN  IF cand = {} THEN [m EXCEPT !.pc = "finish"]
        ELSE [m EXCEPT !.pc = "openFrom",
                       !.li = CHOOSE i \in cand : \A j \in cand : i <= j]

\* migrateCacheEntries after the entry m.key is dealt with: the next
\* copyCacheEntry awaits toCache.match, or the function returns into the
\* finally block, which awaits caches.delete(legacyName).
MigNextEntry(m) ==
    IF m.key = "json" THEN [m EXCEPT !.pc = "matchTo", !.key = "file"]
    ELSE IF m.key = "file" THEN [m EXCEPT !.pc = "matchTo", !.key = "meta"]
    ELSE [m EXCEPT !.pc = "deleteLegacy"]

\* An await of migrateCacheEntries rejects: the finally block runs and the
\* error leaves migrateLegacyCaches after it.
MigThrowSkipsFinally(m) == [m EXCEPT !.pc = "finish"]

MigThrowInEntries(m) == [m EXCEPT !.pc = "deleteLegacy", !.thrown = TRUE]

\* A step of the migration: it changes Cache Storage and its own locals.  A
\* call that rejects is recorded in faults with the cache name and the entry
\* it was about.
MigStep(op, cause, m, cs) ==
    /\ mig' = IF op # "migFailed" THEN m
               ELSE [m EXCEPT !.faults = @ \cup
                        {[pc |-> mig.pc,
                          name |-> IF mig.pc = "deleteOld" THEN Head(mig.todo)
                                   ELSE IF mig.li > 0 THEN LEGACY_CACHE_NAMES[mig.li]
                                   ELSE "",
                          key |-> IF mig.pc \in {"matchTo", "matchFrom", "put"}
                                  THEN mig.key ELSE ""]}]
    /\ caches' = cs
    /\ ev' = Event(op, 0, FALSE, cause)
    /\ UNCHANGED <<conversations, miniSearch, isIndexing, loading, didInit, initPc, tasks,
                   uploads, gen, marker, persistedFor, nUploads, nRestarts>>
    /\ History
    /\ UNCHANGED <<slots, arg, out>>

\* caches.keys() settles.
MigKeys ==
    /\ mig.pc = "keys"
    /\ \E ok \in BOOLEAN :
        IF ok
        THEN LET todo == SelectSeq(<<"myCache", "chatgpt-search-cache-v1", "other-app",
                                     CACHE_NAME>>,
                            LAMBDA n : n \in DOMAIN caches /\ IsVersionedCacheName(n)
                                       /\ n # CACHE_NAME)
                 m == [mig EXCEPT !.existing = DOMAIN caches, !.todo = todo]
             IN  MigStep("migKeys", "",
                         [m EXCEPT !.pc = IF todo = <<>> THEN "openTo" ELSE "deleteOld"], caches)
        ELSE MigStep("migFailed", "cacheFailure", [mig EXCEPT !.pc = "finish"], caches)

\* caches.delete(name) of an older versioned cache settles.
MigDeleteOld ==
    /\ mig.pc = "deleteOld"
    /\ \E ok \in BOOLEAN :
        IF ok
        THEN MigStep("migDeleteOld", "",
                     [mig EXCEPT !.todo = Tail(@),
                                 !.pc = IF Tail(mig.todo) = <<>> THEN "openTo" ELSE "deleteOld"],
                     CachesDelete(caches, Head(mig.todo)))
        ELSE MigStep("migFailed", "cacheFailure", [mig EXCEPT !.pc = "finish"], caches)

\* caches.open(CACHE_NAME) settles.
MigOpenTo ==
    /\ mig.pc = "openTo"
    /\ \E ok \in BOOLEAN :
        IF ok
        THEN MigStep("migOpenTo", "", MigLoop(mig, 1), CachesOpen(caches, CACHE_NAME))
        ELSE MigStep("migFailed", "cacheFailure", [mig EXCEPT !.pc = "finish"], caches)

\* caches.open(fromCacheName) settles; copyCacheEntry('json') awaits
\* toCache.match.
MigOpenFrom ==
    /\ mig.pc = "openFrom"
    /\ \E ok \in BOOLEAN :
        IF ok
        THEN MigStep("migOpenFrom", "", [mig EXCEPT !.pc = "matchTo", !.key = "json"],
                     CachesOpen(caches, LEGACY_CACHE_NAMES[mig.li]))
        ELSE MigStep("migFailed", "cacheFailure",
                     MigThrowInEntries(mig), caches)

\* toCache.match(request) settles: `already` (or existingMeta).
MigMatchTo ==
    /\ mig.pc = "matchTo"
    /\ \E ok \in BOOLEAN :
        IF ok
        THEN MigStep("migMatchTo", "",
                     IF CacheHas(caches, CACHE_NAME, MigKey(mig))
                     THEN (IF mig.key = "meta" THEN [mig EXCEPT !.pc = "deleteLegacy"]
                           ELSE MigNextEntry(mig))
                     ELSE [mig EXCEPT !.pc = "matchFrom"],
                     caches)
        ELSE MigStep("migFailed", "cacheFailure",
                     MigThrowInEntries(mig), caches)

\* fromCache.match(request) settles: `response` (or metaResponse).
MigMatchFrom ==
    /\ mig.pc = "matchFrom"
    /\ \E ok \in BOOLEAN :
        IF ok
        THEN MigStep("migMatchFrom", "",
                     IF CacheHas(caches, LEGACY_CACHE_NAMES[mig.li], MigKey(mig))
                     THEN [mig EXCEPT !.pc = "put",
                                      !.body = CacheBody(caches, LEGACY_CACHE_NAMES[mig.li],
                                                         MigKey(mig))]
                     ELSE MigNextEntry(mig),
                     caches)
        ELSE MigStep("migFailed", "cacheFailure",
                     MigThrowInEntries(mig), caches)

\* toCache.put(request, response.clone()) settles.  After the metadata:
\* meta?.indexKey, and copyCacheEntry(indexKey) when it is a string.
MigPut ==
    /\ mig.pc = "put"
    /\ \E ok \in BOOLEAN :
        IF ok
        THEN MigStep("migPut", "",
                     IF mig.key = "meta"
                     THEN (IF "indexKey" \in DOMAIN mig.body /\ mig.body.indexKey # ""
                           THEN [mig EXCEPT !.pc = "matchTo", !.key = "blob",
                                            !.indexKey = mig.body.indexKey, !.body = Null]
                           ELSE [mig EXCEPT !.pc = "deleteLegacy", !.body = Null])
                     ELSE [MigNextEntry(mig) EXCEPT !.body = Null],
                     CachePut(caches, CACHE_NAME, MigKey(mig), mig.body))
        ELSE MigStep("migFailed", "cacheFailure",
                     [MigThrowInEntries(mig) EXCEPT !.body = Null], caches)

\* finally: caches.delete(legacyName) settles; the error of the try block,
\* or the one of the delete, leaves migrateLegacyCaches.
MigDeleteLegacy ==
    /\ mig.pc = "deleteLegacy"
    /\ \E ok \in BOOLEAN :
        IF ok
        THEN MigStep("migDeleteLegacy", "",
                     IF mig.thrown THEN [mig EXCEPT !.pc = "finish"]
                     ELSE MigLoop(mig, mig.li + 1),
                     CachesDelete(caches, LEGACY_CACHE_NAMES[mig.li]))
        ELSE MigStep("migFailed", "cacheFailure", [mig EXCEPT !.pc = "finish"], caches)

\* migrateLegacyCaches has settled or failed: cleanupLegacyLocalStorage, which
\* removes the keys shouldRemove accepts, the marker among them, and then
\* localStorage.setItem(STORAGE_SCHEMA_KEY, ...); either may throw, a cleanup
\* that throws having removed nothing.  The init effect goes on to
\* cacheGetJson('json').
MigFinish ==
    /\ mig.pc = "finish"
    /\ initPc' = "getJson"
    /\ \E okCleanup, okMarker \in BOOLEAN :
        /\ slots' = IF okCleanup THEN {k \in slots : ~shouldRemove(k)} ELSE slots
        /\ marker' = IF okMarker THEN STORAGE_SCHEMA_VERSION
                     ELSE IF okCleanup THEN UndefinedNum
                     ELSE marker
        /\ mig' = [mig EXCEPT
                     !.pc = "done",
                     !.calls = @ + 1,
                     !.faults = @ \cup {[pc |-> f, name |-> "", key |-> ""] :
                                          f \in {g \in {"cleanup", "setItem"} :
                                                   \/ g = "cleanup" /\ ~okCleanup
                                                   \/ g = "setItem" /\ ~okMarker}}]
        /\ ev' = Event("migDone", 0, FALSE,
                       IF ~okMarker THEN "markerWrite"
                       ELSE IF ~okCleanup THEN "cleanup"
                       ELSE "")
    /\ UNCHANGED <<conversations, miniSearch, isIndexing, loading, didInit, tasks, uploads,
                   gen, caches, persistedFor, nUploads, nRestarts>>
    /\ History
    /\ UNCHANGED <<arg, out>>

NextMigration ==
    \/ InitEffect
    \/ MigKeys
    \/ MigDeleteOld
    \/ MigOpenTo
    \/ MigOpenFrom
    \/ MigMatchTo
    \/ MigMatchFrom
    \/ MigPut
    \/ MigDeleteLegacy
    \/ MigFinish
    \/ InitJsonDone
    \/ OnFile
    \/ \E u \in UploadIds : UploadProcessed(u)
    \/ \E u \in UploadIds : UploadPutFile(u)
    \/ \E u \in UploadIds : UploadPutJson(u)
    \/ \E t \in TaskIds : TaskRestoreMeta(t)
    \/ \E t \in TaskIds : TaskRestoreBlob(t)
    \/ \E t \in TaskIds : TaskBuildDone(t)
    \/ \E t \in TaskIds : TaskPersistBlob(t)
    \/ \E t \in TaskIds : TaskPersistMeta(t)

\* The page is opened for the first time after the deployment of this build.
SpecMigration == InitMigration /\ [][NextMigration]_vars

\* C19: when a known legacy cache ('myCache' or 'chatgpt-search-cache-v1')
\* holds json, file, the index metadata and the index body the metadata
\* references and the active cache is empty, then after the migration
\* routine the active cache holds all four entries and the legacy cache no
\* longer exists (no upload and no failed cache call in between).
C19_LegacyEntriesMigrated ==
    LET metaKeys == {normalizeCacheKey(MINISEARCH_META_KEY),
                     normalizeCacheKey("minisearch:index:meta:v1")}
        HoldsFour(c) ==
            /\ {"json", "file"} \subseteq DOMAIN c
            /\ \E mk \in metaKeys :
                /\ mk \in DOMAIN c
                /\ normalizeCacheKey(c[mk].indexKey) \in DOMAIN c
    IN  \A i \in 1..Len(LEGACY_CACHE_NAMES) :
            LET name == LEGACY_CACHE_NAMES[i]
            IN  /\ ev.op = "migDone"
                /\ nUploads = 0
                /\ hist.clean
                /\ DOMAIN mig.start = {name}
                /\ HoldsFour(mig.start[name])
                => /\ name \notin DOMAIN caches
                   /\ CACHE_NAME \in DOMAIN caches
                   /\ DOMAIN mig.start[name] \subseteq DOMAIN caches[CACHE_NAME]
                   /\ \A k \in DOMAIN mig.start[name] :
                        caches[CACHE_NAME][k] = mig.start[name][k]

\* C20: the migration never overwrites newer data with older: whenever it
\* writes a legacy value into the active cache, the active cache does not
\* hold that key at the moment of the write, also when an upload's cache
\* writes interleave with the migration's awaits.
C20_CopyOnlyIntoAbsentKey ==
    [][ev'.op = "migPut" => ~CacheHas(caches, CACHE_NAME, MigKey(mig))]_vars

(***************************************************************************)
(* SearchResults applied on its own: a record set as processFile or the    *)
(* cache delivers it (a title may be absent), the live index built from it *)
(* or still null, a query, the match mode and the sort mode are drawn and  *)
(* `showing` is computed.                                                  *)
(***************************************************************************)
MaxShown == 2

\* Title "T", "x" or absent; text "[u] x" or "[u] t"; creation and update
\* times 1 and 2.  The ids are "a", "b", ... by position.
QueryRecordSets ==
    LET bodies == [title : {<<84>>, <<120>>, Undefined},
                   text : {<<91, 117, 93, 32, 120>>, <<91, 117, 93, 32, 116>>},
                   time : 1..2, updated : 1..2]
        WithIds(bs) == [i \in 1..Len(bs) |->
                          [id |-> <<96 + i>>, title |-> bs[i].title, text |-> bs[i].text,
                           time |-> bs[i].time, updated |-> bs[i].updated]]
    IN  {WithIds(bs) : bs \in UNION {[1..n -> bodies] : n \in 0..MaxShown}}

QueryArgs ==
    [fn : {"SearchResults"}, conversations : QueryRecordSets, indexed : BOOLEAN,
     input : Queries, fuzzy : BOOLEAN, sortBy : SortModes]

InitQuery ==
    /\ AppStart({[n \in {} |-> EmptyCache]}, {STORAGE_SCHEMA_VERSION})
    /\ arg \in QueryArgs
    /\ out = [done |-> FALSE, showing |-> <<>>]

ApplySearchResults ==
    /\ arg.fn = "SearchResults"
    /\ ~out.done
    /\ out' = [done |-> TRUE,
               showing |-> SearchResults(arg.input, arg.conversations, arg.fuzzy,
                               IF arg.indexed
                               THEN BuildIndex(miniSearchOptions, arg.conversations)
                               ELSE Null,
                               arg.sortBy)]
    /\ UNCHANGED <<appVars, arg>>

SpecQuery == InitQuery /\ [][ApplySearchResults]_vars

\* C26: exact mode returns exactly the records of the record set whose
\* title or text contains the query as a case-insensitive substring, and the
\* result does not depend on the live index being null or installed.
C26_ExactIsSubstringFilter ==
    out.done /\ ~arg.fuzzy /\ trim(arg.input) # <<>> =>
        LET q == toLowerCase(arg.input)
            Contains(v) == IsString(v) /\ includes(toLowerCase(v), q)
            R == arg.conversations
        IN  /\ out.showing # QueryError
            /\ {out.showing[i].id : i \in 1..Len(out.showing)}
                  = {R[i].id : i \in {j \in 1..Len(R) : Contains(R[j].title) \/ Contains(R[j].text)}}
            /\ \A i \in 1..Len(out.showing) : \E j \in 1..Len(R) : out.showing[i] = R[j]
            /\ Len(out.showing) = Cardinality({out.showing[i].id : i \in 1..Len(out.showing)})

\* C30: a query never raises: for every record set the transformer can
\* produce (a title may be absent) and every match mode and sort mode, a
\* non-empty query gives a result sequence.
C30_QueryNeverRaises ==
    out.done /\ trim(arg.input) # <<>> => out.showing # QueryError

\* The score the claims C27 and C28 speak of, for the item at position k of
\* `showing`: the score of the hit in fuzzy mode; in exact mode
\* 5 x (occurrences of the query in the title) + (occurrences in the text).
ShownScore(k) ==
    LET q == toLowerCase(trim(arg.input))
        c == out.showing[k]
    IN  IF arg.fuzzy THEN ScoreOf(c)
        ELSE 5 * countOccurrences(LowerOrEmpty(c.title), q)
                + countOccurrences(LowerOrEmpty(c.text), q)

Shown == out.done /\ trim(arg.input) # <<>> /\ out.showing # QueryError

\* C27: under sort 'relevance' the results are ordered by score descending
\* (the index score in fuzzy mode, the synthetic score in exact mode), ties
\* broken by updated time descending.
C27_RelevanceOrder ==
    Shown /\ arg.sortBy = "relevance" =>
        \A i, j \in 1..Len(out.showing) :
            i < j =>
                \/ ShownScore(i) > ShownScore(j)
                \/ /\ ShownScore(i) = ShownScore(j)
                   /\ getUpdated(out.showing[i]) >= getUpdated(out.showing[j])

\* Exact mode: two results of equal synthetic score, the later updated one
\* second in the record set and first in the result.
C27_Witness ==
    /\ Shown /\ arg.sortBy = "relevance"
    /\ Len(out.showing) = 2
    /\ ShownScore(1) = ShownScore(2)
    /\ getUpdated(out.showing[1]) > getUpdated(out.showing[2])
    /\ out.showing[1].id = arg.conversations[2].id
    /\ ~arg.fuzzy

\* C28 as stated: under sort 'updated' (resp. 'created') the results are
\* ordered by updated (resp. creation) time descending, and results of equal
\* time by score descending, in fuzzy mode and in exact mode alike.
C28_DateOrderScoreTies ==
    Shown /\ arg.sortBy # "relevance" =>
        LET t(k) == IF arg.sortBy = "created" THEN getCreated(out.showing[k])
                    ELSE getUpdated(out.showing[k])
        IN  \A i, j \in 1..Len(out.showing) :
                i < j => \/ t(i) > t(j)
                         \/ t(i) = t(j) /\ ShownScore(i) >= ShownScore(j)

\* C28 amended: the time order holds in both modes; results of equal time
\* are ordered by score descending in fuzzy mode, and keep the order of the
\* record set in exact mode, where a result carries no score.
C28_DateOrder ==
    Shown /\ arg.sortBy # "relevance" =>
        LET t(k) == IF arg.sortBy = "created" THEN getCreated(out.showing[k])
                    ELSE getUpdated(out.showing[k])
            pos(k) == CHOOSE p \in 1..Len(arg.conversations) :
                          arg.conversations[p].id = out.showing[k].id
        IN  \A i, j \in 1..Len(out.showing) :
                i < j => \/ t(i) > t(j)
                         \/ /\ t(i) = t(j)
                            /\ IF arg.fuzzy THEN ShownScore(i) >= ShownScore(j)
                               ELSE pos(i) < pos(j)

\* Fuzzy mode: two hits of equal creation time, the one of higher score
\* second in the record set and first in the result.
C28_Witness ==
    /\ Shown /\ arg.sortBy = "created" /\ arg.fuzzy
    /\ Len(out.showing) = 2
    /\ getCreated(out.showing[1]) = getCreated(out.showing[2])
    /\ ShownScore(1) > ShownScore(2)
    /\ out.showing[1].id = arg.conversations[2].id

(***************************************************************************)
(* Page loads without an upload: ensureStorageUpToDate on any marker, the  *)
(* load of the cached record set, the index effect, and a reload at any    *)
(* moment, after which ensureStorageUpToDate is called again.              *)
(***************************************************************************)
InitStartup ==
    /\ AppStart(MigrationCaches \cup {CrowdedCaches}, {UndefinedNum, 1, STORAGE_SCHEMA_VERSION})
    /\ arg = NoArg
    /\ out = NoOut

NextStartup ==
    \/ InitEffect
    \/ MigKeys
    \/ MigDeleteOld
    \/ MigOpenTo
    \/ MigOpenFrom
    \/ MigMatchTo
    \/ MigMatchFrom
    \/ MigPut
    \/ MigDeleteLegacy
    \/ MigFinish
    \/ InitJsonDone
    \/ \E t \in TaskIds : TaskRestoreMeta(t)
    \/ \E t \in TaskIds : TaskRestoreBlob(t)
    \/ \E t \in TaskIds : TaskBuildDone(t)
    \/ \E t \in TaskIds : TaskPersistBlob(t)
    \/ \E t \in TaskIds : TaskPersistMeta(t)
    \/ Restart

SpecStartup == InitStartup /\ [][NextStartup]_vars

\* The steps of migrateCacheEntries and copyCacheEntry: copying the entries
\* of one legacy cache.
CopySteps == {"openFrom", "matchTo", "matchFrom", "put"}

\* C21: every known legacy cache that exists when the migration starts is
\* deleted when ensureStorageUpToDate ends, whether the copying of its
\* entries succeeded or raised (no other call having failed).
C21_LegacyDeletedEitherWay ==
    ev.op = "migDone" /\ (\A f \in mig.faults : f.pc \in CopySteps \cup {"cleanup", "setItem"}) =>
        \A i \in 1..Len(LEGACY_CACHE_NAMES) :
            LEGACY_CACHE_NAMES[i] \in DOMAIN mig.start => LEGACY_CACHE_NAMES[i] \notin DOMAIN caches

\* The copying of the entries of 'myCache' raised at the put of its record
\* set, and the migration has ended with the cache deleted.
C21_Witness ==
    /\ ev.op = "migDone"
    /\ mig.faults = {[pc |-> "put", name |-> "myCache", key |-> "json"]}
    /\ "myCache" \in DOMAIN mig.start
    /\ "myCache" \notin DOMAIN caches

\* C22: every migration step is best-effort: when one step fails (the
\* delete of one superseded versioned cache, the migration of one legacy
\* cache, the copy of one key, the purge of old localStorage keys, the write
\* of the marker), the remaining steps are still executed and
\* ensureStorageUpToDate returns, so that startup goes on to load the cached
\* records.  Stated for a call in which exactly one call failed: every
\* legacy cache whose own delete did not fail is gone, every one of
\* 'json' and 'file' of 'myCache' whose own copy did not fail is in the
\* active cache, the old keys are purged unless the purge failed and the
\* marker is current unless its write failed.
C22_EveryStepBestEffort ==
    ev.op = "migDone" /\ Cardinality(mig.faults) = 1
        /\ (\A f \in mig.faults : f.pc \in {"deleteOld", "cleanup", "setItem"} \cup CopySteps) =>
        LET f == CHOOSE g \in mig.faults : TRUE
        IN  /\ initPc = "getJson"
            /\ \A i \in 1..Len(LEGACY_CACHE_NAMES) :
                  LET n == LEGACY_CACHE_NAMES[i]
                  IN  n \in DOMAIN mig.start /\ ~(f.pc = "deleteOld" /\ f.name = n)
                          => n \notin DOMAIN caches
            /\ \A k \in {"json", "file"} :
                  /\ CacheHas(mig.start, "myCache", k)
                  /\ ~(f.name = "myCache" /\ f.key = k)
                  /\ ~(f.name = "myCache" /\ f.pc = "openFrom")
                  => CacheHas(caches, CACHE_NAME, k)
            /\ f.pc # "cleanup" => \A k \in slots : ~shouldRemove(k)
            /\ f.pc # "setItem" => marker = STORAGE_SCHEMA_VERSION

\* The steps of ensureStorageUpToDate, as ev.op records them.
EnsureOps ==
    {"initStart", "migKeys", "migDeleteOld", "migOpenTo", "migOpenFrom", "migMatchTo",
     "migMatchFrom", "migPut", "migDeleteLegacy", "migFailed", "migDone"}

\* The step is the return of the second call of ensureStorageUpToDate, and
\* Cache Storage, the localStorage keys and the marker are what they were
\* when that call began.
SecondCallReturns == mig.calls = 1 /\ mig'.calls = 2

SecondCallChangedNothing ==
    IF ev'.op = "migDone"
    THEN caches' = mig.start /\ slots' = mig.startSlots /\ marker' = mig.startMarker
    ELSE caches' = caches /\ slots' = slots /\ marker' = marker

\* The step of ensureStorageUpToDate leaves the active cache and every entry
\* in it in place.
ActiveCacheKept ==
    ev'.op \in EnsureOps /\ CACHE_NAME \in DOMAIN caches =>
        /\ CACHE_NAME \in DOMAIN caches'
        /\ DOMAIN caches[CACHE_NAME] \subseteq DOMAIN caches'[CACHE_NAME]

C25_NoRestoreBeforeMigrationEnds ==
    initPc = "migrate" =>
        \A t \in DOMAIN tasks : tasks[t].pc \notin {"restoreMeta", "restoreBlob"}

\* The cache names of the model that match 'chatgpt-search-cache-v*' and are
\* not the active one, or are on the list of legacy names.
Deletable == {"chatgpt-search-cache-v1", "myCache"}

\* C29 as stated: migration deletes only caches whose name matches the
\* versioned pattern (other than the active one) or is on the legacy list;
\* every other cache, and the active cache itself, exists with unchanged
\* contents after migration.
C29_OthersAndActiveUnchanged ==
    ev.op = "migDone" =>
        \A n \in DOMAIN mig.start :
            n \notin Deletable => n \in DOMAIN caches /\ caches[n] = mig.start[n]

\* C29 amended: as above for every other cache; the active cache exists
\* after migration with every entry it held when migration started, none
\* removed or replaced (migration only adds entries to it).
C29_OthersUnchangedActiveKept ==
    ev.op = "migDone" =>
        \A n \in DOMAIN mig.start :
            n \notin Deletable =>
                /\ n \in DOMAIN caches
                /\ n # CACHE_NAME => caches[n] = mig.start[n]
                /\ \A k \in DOMAIN mig.start[n] :
                      k \in DOMAIN caches[n] /\ caches[n][k] = mig.start[n][k]

\* Both legacy caches are deleted, the cache of another page is as it was,
\* and the active cache, which existed when the migration started, has
\* gained the record set of 'myCache'.
C29_Witness ==
    /\ ev.op = "migDone"
    /\ {"myCache", "chatgpt-search-cache-v1", "other-app", CACHE_NAME} \subseteq DOMAIN mig.start
    /\ DOMAIN caches = {"other-app", CACHE_NAME}
    /\ caches["other-app"] = mig.start["other-app"]
    /\ ~CacheHas(mig.start, CACHE_NAME, "json")
    /\ CacheHas(caches, CACHE_NAME, "json")

(***************************************************************************)
(* restoreMiniSearchIndex and persistMiniSearchIndex applied on their own: *)
(* a record set and Cache Storage are drawn; restore is called with the    *)
(* fingerprint of the set and, when it returns null, an index is built     *)
(* from the set and handed to persist, as the effect's async function does *)
(* (without the effect's own return on an empty record set).               *)
(***************************************************************************)
InitSentinel ==
    /\ AppStart(PriorCaches \cup DamagedCaches, {STORAGE_SCHEMA_VERSION})
    /\ arg \in [fn : {"restorePersist"},
                conversations : UploadSets \cup UNION {[1..n -> SigRecords] : n \in 0..1},
                start : {caches}]
    /\ out = [done |-> FALSE, signature |-> ""]

ApplyRestorePersist ==
    /\ arg.fn = "restorePersist"
    /\ ~out.done
    /\ out' = [done |-> TRUE, signature |-> getConversationsSignature(arg.conversations)]
    /\ conversations' = arg.conversations
    /\ gen' = 1
    /\ tasks' = (1 :> NewTask(arg.conversations))
    /\ ev' = Event("apply", 1, FALSE, "")
    /\ UNCHANGED <<miniSearch, isIndexing, loading, didInit, initPc, uploads, caches,
                   marker, persistedFor, nUploads, nRestarts>>
    /\ History
    /\ UNCHANGED <<mig, slots, arg>>

SpecSentinel ==
    InitSentinel /\ [][\/ ApplyRestorePersist
                       \/ TaskRestoreMeta(1)
                       \/ TaskRestoreBlob(1)
                       \/ TaskBuildDone(1)
                       \/ TaskPersistBlob(1)
                       \/ TaskPersistMeta(1)]_vars

\* C31: the fingerprint of an empty record set is the sentinel 'empty', no
\* non-empty record set has the fingerprint 'empty', and for the sentinel
\* neither restore nor persist reads or writes the cache: no step of either
\* belongs to the call, the call is at no cache operation, and Cache Storage
\* is as it was when the call began.
C31_EmptySentinel ==
    out.done =>
        /\ (out.signature = "empty") <=> (arg.conversations = <<>>)
        /\ out.signature = "empty" =>
            /\ caches = arg.start
            /\ persistedFor = [k \in {} |-> <<>>]
            /\ \A t \in DOMAIN tasks : tasks[t].pc = "build"
            /\ ev.op \in {"apply", "buildDone"}
            /\ ev.op = "buildDone" => ev.cause = "persistSkipped" /\ DOMAIN tasks = {}

\* Restore and persist were called with the sentinel on a cache that holds
\* the artifact of another record set, and persist has returned.
C31_Witness ==
    /\ out.done
    /\ arg.conversations = <<>>
    /\ out.signature = "empty"
    /\ ev.op = "buildDone" /\ ev.cause = "persistSkipped"
    /\ CacheHas(caches, CACHE_NAME, MINISEARCH_META_KEY)
    /\ caches = arg.start

\* C32: for each export entry (of an export whose entries all have a mapping
\* table), the record's messages are exactly the mapping nodes that carry a
\* message, in the iteration order of the mapping table: message k of the
\* record is made from the k-th message-carrying node, nodes without a
\* message contribute nothing and no message-carrying node is dropped or
\* reordered.
C32_MessagesAreCarryingNodes ==
    /\ out.done
    /\ arg.doc = "array"
    /\ \A i \in 1..Len(arg.entries) : arg.entries[i].mapping.present
    =>
        /\ out.ok
        /\ \E p \in [1..Len(arg.entries) -> 1..Len(out.records)] :
            /\ \A i, j \in DOMAIN p : p[i] = p[j] => i = j
            /\ \A i \in DOMAIN p :
                LET nodes == arg.entries[i].mapping.nodes
                    messages == out.records[p[i]].messages
                    carrying == {k \in 1..Len(nodes) : nodes[k].message}
                IN  /\ out.records[p[i]].id = arg.entries[i].conversation_id
                    /\ out.records[p[i]].time = arg.entries[i].create_time
                    /\ \E f \in [1..Len(messages) -> 1..Len(nodes)] :
                        /\ \A a, b \in DOMAIN f : a < b => f[a] < f[b]
                        /\ {f[a] : a \in DOMAIN f} = carrying
                        /\ \A a \in DOMAIN f :
                            /\ messages[a].author = nodes[f[a]].role
                            /\ messages[a] = mapMessage(nodes[f[a]])

\* Two entries were transformed: one whose two nodes carry different
\* messages, one whose first node is structural and whose second carries a
\* message.
C32_Witness ==
    /\ out.done /\ out.ok
    /\ Len(arg.entries) = 2
    /\ LET n1 == arg.entries[1].mapping.nodes
           n2 == arg.entries[2].mapping.nodes
       IN  /\ arg.entries[1].mapping.present /\ arg.entries[2].mapping.present
           /\ Len(n1) = 2 /\ n1[1].message /\ n1[2].message /\ n1[1] # n1[2]
           /\ Len(n2) = 2 /\ ~n2[1].message /\ n2[2].message
           /\ arg.entries[1].conversation_id # arg.entries[2].conversation_id
    /\ \E r \in 1..2 : Len(out.records[r].messages) = 2
    /\ \E r \in 1..2 : Len(out.records[r].messages) = 1

\* The program started on the cache of an earlier page load that uploaded,
\* built and persisted the record set <<ConvB>>.
SpecReplaced ==
    StartWith({PriorArtifact(<<ConvB>>, miniSearchOptions,
                             SerializeIndex(BuildIndex(miniSearchOptions, <<ConvB>>)))})
        /\ [][Next]_vars

\* C34: at every reachable state the live index is null or is the index
\* restored or built for the record set currently in memory; in particular
\* (between a record-set change and the installation of the new index, and
\* after a failed build) a fuzzy query returns no id of a record that is
\* not in the current record set.
C34_LiveIndexIsOfCurrentSet ==
    /\ \/ miniSearch = Null
       \/ miniSearch = BuildIndex(miniSearchOptions, conversations)
       \/ /\ BlobPresent(CurrentSignature)
          /\ miniSearch = LoadJSON(BlobBody(CurrentSignature), miniSearchOptions)
    /\ \A q \in Queries : \A sortBy \in SortModes :
        LET showing == SearchResults(q, conversations, TRUE, miniSearch, sortBy)
        IN  \A k \in 1..Len(showing) :
                \E i \in 1..Len(conversations) : conversations[i].id = showing[k].id

\* C35: at every reachable state of the active cache (during and after
\* persist, during and after migration), if the metadata record is present
\* then the index body under the key it names is present too.
C35_MetaImpliesBlob ==
    MetaPresent => CacheHas(caches, CACHE_NAME, MetaBody.indexKey)

\* Nothing is in flight: the init effect's function, every onFile call and
\* every index task have ended.
Quiescent == initPc = "done" /\ DOMAIN tasks = {} /\ DOMAIN uploads = {}

\* The record set persisted under 'json'.
JsonRecords == JsonParse(CacheBody(caches, CACHE_NAME, "json"))

\* C36: after any sequence of uploads, once all index tasks and cache writes
\* have finished without cache failures, the fingerprint in the persisted
\* metadata is the fingerprint of the record set persisted under json (here:
\* a non-empty record set whose index can be built, and which is the record
\* set in memory): the persist started for an earlier record set does not
\* leave the metadata at the earlier fingerprint.
C36_MetaFingerprintIsOfJson ==
    /\ Quiescent
    /\ hist.clean
    /\ CacheHas(caches, CACHE_NAME, "json")
    /\ conversations = JsonRecords
    /\ MetaPresent
    /\ JsonRecords # <<>>
    /\ ~BuildThrows(JsonRecords)
    => MetaBody.signature = getConversationsSignature(JsonRecords)

\* C37: for every interleaving of the startup load of the cached records
\* with uploads, once everything pending has finished without cache failures
\* (and an upload has delivered a record set), the record set in memory is
\* the record set persisted under json, and the persisted file and json come
\* from the same upload.
C37_MemoryIsJson ==
    Quiescent /\ hist.clean /\ hist.uploaded =>
        /\ CacheHas(caches, CACHE_NAME, "json")
        /\ conversations = JsonRecords
        /\ CacheHas(caches, CACHE_NAME, "file")
        /\ CacheBody(caches, CACHE_NAME, "file").conversations = JsonRecords

\* C38: the loading flag is true at every state in which the startup load
\* or an upload is still in progress, also when two such operations
\* overlap: the end of one does not clear the flag while another is running.
C38_LoadingWhileInProgress ==
    (initPc \in {"migrate", "getJson"} \/ DOMAIN uploads # {}) => loading

\* The index bodies in the active cache: its entries other than json, file
\* and the metadata.
IndexBlobKeys ==
    IF CACHE_NAME \in DOMAIN caches
    THEN DOMAIN caches[CACHE_NAME]
            \ {normalizeCacheKey("json"), normalizeCacheKey("file"),
               normalizeCacheKey(MINISEARCH_META_KEY)}
    ELSE {}

\* C39: the active cache never holds more than one serialized index body:
\* once a persist has written the index of a new fingerprint, the body of
\* any previous fingerprint is no longer present.
C39_AtMostOneBlob ==
    /\ Cardinality(IndexBlobKeys) <= 1
    /\ ev.op = "persistDone" => IndexBlobKeys = {normalizeCacheKey(MetaBody.indexKey)}

\* The positions of persistMiniSearchIndex, and those before it.
PersistPcs == {"persistBlob", "persistMeta"}
BeforePersistPcs == {"restoreMeta", "restoreBlob", "build"}

\* C40: an index task that is superseded before its build finishes never
\* writes an index body or a metadata record: it never gets into persist.
\* Only a task that installed its own build as the live index starts a
\* persist, and an index body or the metadata changes only in a step of a
\* task that is in persist.
C40_SupersededBuildNeverPersists ==
    [][/\ \A t \in TaskIds :
            (t \in DOMAIN tasks /\ tasks[t].pc \in BeforePersistPcs /\ Superseded(t)) =>
                /\ t \in DOMAIN tasks' => tasks'[t].pc \in BeforePersistPcs
                /\ ev'.tid = t /\ ev'.op \notin {"uploadParsed", "uploadStart", "uploadNoFile",
                                                  "uploadFileCached", "uploadDone",
                                                  "uploadFailed"} =>
                      /\ IndexBlobKeys' = IndexBlobKeys
                      /\ MetaPresent' = MetaPresent
                      /\ MetaPresent => MetaBody' = MetaBody
       /\ \A t \in TaskIds :
            (t \in DOMAIN tasks' /\ tasks'[t].pc \in PersistPcs
                /\ (t \notin DOMAIN tasks \/ tasks[t].pc \notin PersistPcs)) =>
                /\ t \in DOMAIN tasks /\ tasks[t].pc = "build"
                /\ ev'.installed /\ ev'.tid = t
                /\ t = gen'
                /\ miniSearch' = BuildIndex(miniSearchOptions, tasks[t].conversations)
       /\ (\/ IndexBlobKeys' # IndexBlobKeys
           \/ MetaPresent' # MetaPresent
           \/ MetaPresent /\ MetaBody' # MetaBody
           \/ \E k \in IndexBlobKeys : caches'[CACHE_NAME][k] # caches[CACHE_NAME][k]) =>
            \E t \in DOMAIN tasks : tasks[t].pc \in PersistPcs /\ ev'.tid = t
      ]_vars

\* The build of a superseded task finished and was dropped; the cache holds
\* no index body and no metadata.
C40_Witness ==
    /\ ev.op = "buildDiscarded"
    /\ Superseded(ev.tid)
    /\ ev.cancelled
    /\ IndexBlobKeys = {}
    /\ ~MetaPresent

(***************************************************************************)
(* The program with the awaits of its index tasks settling: as long as an  *)
(* index task is in flight, a cache operation or a build of some task      *)
(* resolves or rejects in the end.  What the user does (picking an         *)
(* archive, reloading the page) is under no obligation.                    *)
(***************************************************************************)
TaskStep ==
    \E t \in TaskIds :
        \/ TaskRestoreMeta(t)
        \/ TaskRestoreBlob(t)
        \/ TaskBuildDone(t)
        \/ TaskPersistBlob(t)
        \/ TaskPersistMeta(t)

SpecSettling == Init /\ [][Next]_vars /\ WF_vars(TaskStep)

\* C33: indexing terminates.  After the last record-set change, with every
\* cache operation and the index build resolving or failing in the end,
\* isIndexing becomes false and stays false, whether the task ends by
\* restore, build, build failure or persist failure and however many
\* earlier tasks were superseded.
C33_IndexingTerminates == <>[](~isIndexing)

\* The build of the latest task failed after an earlier task had been
\* superseded, and the flag is down with nothing in flight.
C33_Witness ==
    /\ ev.op = "buildFailed"
    /\ ~ev.cancelled
    /\ gen >= 2
    /\ ~Superseded(ev.tid)
    /\ DOMAIN tasks = {}
    /\ ~isIndexing

=============================================================================
